---- MODULE Spec2Model ----
(***************************************************************************)
(* A model of tensorflow_datasets/core/dataset_builder.py: version         *)
(* resolution (DatasetBuilder._pick_version), location resolution          *)
(* (DatasetBuilder._build_data_dir) and the staged build of                *)
(* DatasetBuilder.download_and_prepare.                                    *)
(*                                                                         *)
(* Strings are sequences of tokens ("1", ".", "0", "/", ...), so that      *)
(* formatting a version, joining a path and parsing a directory name are   *)
(* computed and not assumed.                                               *)
(***************************************************************************)
EXTENDS Integers, Sequences, FiniteSets, TLC

VARIABLES
  versions,        \* DatasetBuilder.versions: [canonical] + supported
  requested,       \* the `version` argument of __init__
  picked,          \* outcome of _pick_version
  builder_config,  \* the name of self._builder_config, or None
  given_data_dir,  \* the `data_dir` argument of __init__
  DATA_DIR,        \* constants.DATA_DIR
  data_dirs,       \* constants.list_data_dirs()
  fs,              \* the filesystem: existing directory |-> set of file names
  located,         \* outcome of _build_data_dir: self._data_dir_root and the
                   \* version directory computed at construction
  self_data_dir,   \* self._data_dir
  info,            \* self.info: the split catalog held in memory
  disk_info,       \* directory |-> the catalog its metadata file holds
  split_generators,\* the split names self._split_generators() returns
  py2,             \* six.PY2
  pc,              \* position of the running download_and_prepare call
  call,            \* arguments and environment of that call
  staging,         \* the open utils.incomplete_dir / temporary_assignment
  split_dict,      \* split_dict of FileAdapterBuilder._download_and_prepare
  raised,          \* the exception travelling up from the body, if any
  outcome,         \* how the last call ended, as its caller sees it
  hist,            \* history of the running call: the filesystem when it
                   \* started, what it created, wrote and invoked
  builder_class,   \* GeneratorBasedBuilder or BeamBasedBuilder
  beam_writers,    \* self._beam_writers of a BeamBasedBuilder
  peer,            \* another process building the same version
  as_dataset_args, \* arguments and environment of the last as_dataset call
  datasets         \* what that call returned or raised

vvars == <<versions, requested, picked>>
lvars == <<builder_config, given_data_dir, DATA_DIR, data_dirs, located>>
bvars == <<self_data_dir, info, disk_info, split_generators, py2, pc, call,
           staging, split_dict, raised, outcome, hist, builder_class,
           beam_writers, peer, as_dataset_args, datasets>>
vars == <<versions, requested, picked, builder_config, given_data_dir, DATA_DIR,
          data_dirs, fs, located, self_data_dir, info, disk_info,
          split_generators, py2, pc, call, staging, split_dict, raised,
          outcome, hist, builder_class, beam_writers, peer, as_dataset_args,
          datasets>>

(***************************************************************************)
(* Bounds                                                                  *)
(***************************************************************************)
MaxMajor == 1
MaxMinor == 0
MaxPatch == 1
MaxSupported == 1
MaxExtraRoots == 1
MaxExamples == 2

(***************************************************************************)
(* Strings                                                                 *)
(***************************************************************************)
\* Python's None, where a string is expected.
NoneVal == <<"None">>

Digits == <<"0", "1", "2", "3", "4", "5", "6", "7", "8", "9">>

\* "{}".format(n) for a one-digit number
DigitStr(n) == Digits[n + 1]

DigitTokens == {Digits[i] : i \in 1..Len(Digits)}

\* sep.join(strs)
RECURSIVE Join(_, _)
Join(sep, strs) ==
  IF Len(strs) = 0 THEN <<>>
  ELSE IF Len(strs) = 1 THEN strs[1]
  ELSE strs[1] \o sep \o Join(sep, Tail(strs))

(***************************************************************************)
(* utils.Version                                                           *)
(***************************************************************************)
Version(major, minor, patch, marker) ==
  [major |-> major, minor |-> minor, patch |-> patch,
   tfds_version_to_prepare |-> marker]

\* str(version): "{}.{}.{}".format(major, minor, patch)
VersionStr(v) ==
  <<DigitStr(v.major), ".", DigitStr(v.minor), ".", DigitStr(v.patch)>>

\* The total order of versions: lexicographic on (major, minor, patch).
VersionLess(a, b) ==
  \/ a.major < b.major
  \/ a.major = b.major /\ a.minor < b.minor
  \/ a.major = b.major /\ a.minor = b.minor /\ a.patch < b.patch

\* The components of a request "x[.y[.z]]": the tokens between the dots.
RequestParts(req) == [i \in 1..((Len(req) + 1) \div 2) |-> req[2 * i - 1]]

\* Version.match(requested): each component of the request is the version's,
\* or a wildcard; an omitted component is a wildcard.
VersionMatch(v, req) ==
  LET parts == RequestParts(req)
      own == <<DigitStr(v.major), DigitStr(v.minor), DigitStr(v.patch)>>
  IN \A i \in 1..3 : i > Len(parts) \/ parts[i] \in {"*", own[i]}

\* utils.Version(name) succeeds: name has the form X.Y.Z or X.Y.*
IsVersionStr(s) ==
  /\ Len(s) = 5
  /\ s[1] \in DigitTokens /\ s[2] = "."
  /\ s[3] \in DigitTokens /\ s[4] = "."
  /\ s[5] \in DigitTokens \cup {"*"}

(***************************************************************************)
(* DatasetBuilder._pick_version                                            *)
(***************************************************************************)
\* Python's max(seq): the first element no later element is greater than.
RECURSIVE PyMax(_)
PyMax(vs) ==
  IF Len(vs) = 1 THEN vs[1]
  ELSE LET m == PyMax(SubSeq(vs, 1, Len(vs) - 1))
       IN IF VersionLess(m, vs[Len(vs)]) THEN vs[Len(vs)] ELSE m

NoVersion == Version(0, 0, 0, FALSE)

LatestRequest == <<"experimental_latest">>

\* A resolution that prefers the highest matching candidate to the first one.
pick_version_highest_match(vs, requested_version) ==
  IF requested_version = LatestRequest
  THEN [status |-> "ok", version |-> PyMax(vs), msg |-> <<>>]
  ELSE LET hits == {i \in 1..Len(vs) :
                      \/ requested_version = NoneVal
                      \/ VersionMatch(vs[i], requested_version)}
       IN IF hits # {}
          THEN [status |-> "ok",
                version |-> PyMax([k \in 1..Cardinality(hits) |->
                  vs[CHOOSE i \in hits :
                       Cardinality({j \in hits : j < i}) = k - 1]]),
                msg |-> <<>>]
          ELSE [status |-> "AssertionError",
                version |-> NoVersion,
                msg |-> Join(<<",", " ">>,
                             [i \in 1..Len(vs) |-> VersionStr(vs[i])])]

\* A resolution whose error message leaves the canonical version out.
pick_version_lists_supported_only(vs, requested_version) ==
  IF requested_version = LatestRequest
  THEN [status |-> "ok", version |-> PyMax(vs), msg |-> <<>>]
  ELSE LET hits == {i \in 1..Len(vs) :
                      \/ requested_version = NoneVal
                      \/ VersionMatch(vs[i], requested_version)}
       IN IF hits # {}
          THEN [status |-> "ok",
                version |-> vs[CHOOSE i \in hits : \A j \in hits : i <= j],
                msg |-> <<>>]
          ELSE [status |-> "AssertionError",
                version |-> NoVersion,
                msg |-> Join(<<",", " ">>,
                             [i \in 1..(Len(vs) - 1) |-> VersionStr(vs[i + 1])])]

pick_version(vs, requested_version) ==
  IF requested_version = LatestRequest
  THEN [status |-> "ok", version |-> PyMax(vs), msg |-> <<>>]
  ELSE LET hits == {i \in 1..Len(vs) :
                      \/ requested_version = NoneVal
                      \/ VersionMatch(vs[i], requested_version)}
       IN IF hits # {}
          THEN [status |-> "ok",
                version |-> vs[CHOOSE i \in hits : \A j \in hits : i <= j],
                msg |-> <<>>]
          ELSE [status |-> "AssertionError",
                version |-> NoVersion,
                msg |-> Join(<<",", " ">>,
                             [i \in 1..Len(vs) |-> VersionStr(vs[i])])]

(***************************************************************************)
(* Paths and the filesystem                                                *)
(***************************************************************************)
\* os.path.join(a, b), b relative
PathJoin(a, b) == a \o <<"/">> \o b

HomeDir == <<"home">>

\* os.path.expanduser: a leading "~" becomes the home directory.
expanduser(p) ==
  IF Len(p) >= 1 /\ p[1] = "~" /\ (Len(p) = 1 \/ p[2] = "/")
  THEN HomeDir \o SubSeq(p, 2, Len(p))
  ELSE p

EmptyFs == [p \in {} |-> {}]

\* tf.io.gfile.exists(path), for directories
Exists(f, path) == path \in DOMAIN f

\* tf.io.gfile.listdir(dir): the names of the entries directly under dir.
ListDir(f, dir) ==
  LET n == Len(dir) + 1
      below == {q \in DOMAIN f :
                  /\ Len(q) > n
                  /\ SubSeq(q, 1, n) = dir \o <<"/">>
                  /\ \A i \in (n + 1)..Len(q) : q[i] # "/"}
  IN {SubSeq(q, n + 1, Len(q)) : q \in below} \cup f[dir]

\* Every directory on the way to path, and path itself.
Ancestors(path) ==
  {SubSeq(path, 1, i - 1) : i \in {j \in 2..Len(path) : path[j] = "/"}} \cup {path}

\* tf.io.gfile.makedirs(path)
MakeDirs(f, path) ==
  [q \in DOMAIN f \cup Ancestors(path) |-> IF q \in DOMAIN f THEN f[q] ELSE {}]

(***************************************************************************)
(* DatasetBuilder._relative_data_dir, _list_all_version_dirs and           *)
(* _build_data_dir                                                         *)
(***************************************************************************)
DatasetName == <<"d">>

\* if x: ... on an optional string
Truthy(x) == x # NoneVal /\ x # <<>>

relative_data_dir(config_name, version, with_version) ==
  LET builder_data_dir == IF Truthy(config_name)
                          THEN PathJoin(DatasetName, config_name)
                          ELSE DatasetName
  IN IF ~with_version THEN builder_data_dir
     ELSE PathJoin(builder_data_dir, VersionStr(version))

\* A listing that takes every entry for a version.
list_all_version_dirs_any_name(f, root_dir) ==
  IF ~Exists(f, root_dir) THEN {}
  ELSE {PathJoin(root_dir, version) : version \in ListDir(f, root_dir)}

\* Lines 843-858: _list_all_version_dirs
list_all_version_dirs(f, root_dir) ==
  IF ~Exists(f, root_dir) THEN {}
  ELSE {PathJoin(root_dir, version) :
          version \in {n \in ListDir(f, root_dir) : IsVersionStr(n)}}

\* requested_version_dirs[key] = value, on a dict kept as the sequence of its
\* items in insertion order
DictSet(d, key, value) ==
  IF \E i \in 1..Len(d) : d[i].root = key
  THEN [i \in 1..Len(d) |->
          IF d[i].root = key THEN [root |-> key, dir |-> value] ELSE d[i]]
  ELSE Append(d, [root |-> key, dir |-> value])

NoScan == [all_version_dirs |-> {}, requested_version_dirs |-> <<>>, listed |-> <<>>]

\* A scan that stops at the first root holding the requested version.
RECURSIVE scan_data_dirs_first_hit(_, _, _, _, _)
scan_data_dirs_first_hit(f, all_data_dirs, builder_dir, version_dir, acc) ==
  IF all_data_dirs = <<>> \/ Len(acc.requested_version_dirs) >= 1 THEN acc
  ELSE LET data_dir_root == Head(all_data_dirs)
           all_version_dirs ==
             acc.all_version_dirs
               \cup list_all_version_dirs(f, PathJoin(data_dir_root, builder_dir))
           requested_version_dir == PathJoin(data_dir_root, version_dir)
       IN scan_data_dirs_first_hit(f, Tail(all_data_dirs), builder_dir, version_dir,
            [all_version_dirs |-> all_version_dirs,
             requested_version_dirs |->
               IF requested_version_dir \in all_version_dirs
               THEN DictSet(acc.requested_version_dirs, data_dir_root,
                            requested_version_dir)
               ELSE acc.requested_version_dirs,
             listed |-> Append(acc.listed, data_dir_root)])

\* A scan that keeps one match only: the last root holding the version.
RECURSIVE scan_data_dirs_last_hit(_, _, _, _, _)
scan_data_dirs_last_hit(f, all_data_dirs, builder_dir, version_dir, acc) ==
  IF all_data_dirs = <<>> THEN acc
  ELSE LET data_dir_root == Head(all_data_dirs)
           all_version_dirs ==
             acc.all_version_dirs
               \cup list_all_version_dirs(f, PathJoin(data_dir_root, builder_dir))
           requested_version_dir == PathJoin(data_dir_root, version_dir)
       IN scan_data_dirs_last_hit(f, Tail(all_data_dirs), builder_dir, version_dir,
            [all_version_dirs |-> all_version_dirs,
             requested_version_dirs |->
               IF requested_version_dir \in all_version_dirs
               THEN <<[root |-> data_dir_root, dir |-> requested_version_dir]>>
               ELSE acc.requested_version_dirs,
             listed |-> Append(acc.listed, data_dir_root)])

\* Lines 663-672: the loop over all_data_dirs. `listed` records the roots whose
\* content the loop has read, in order.
RECURSIVE scan_data_dirs(_, _, _, _, _)
scan_data_dirs(f, all_data_dirs, builder_dir, version_dir, acc) ==
  IF all_data_dirs = <<>> THEN acc
  ELSE LET data_dir_root == Head(all_data_dirs)
           all_version_dirs ==
             acc.all_version_dirs
               \cup list_all_version_dirs(f, PathJoin(data_dir_root, builder_dir))
           requested_version_dir == PathJoin(data_dir_root, version_dir)
       IN scan_data_dirs(f, Tail(all_data_dirs), builder_dir, version_dir,
            [all_version_dirs |-> all_version_dirs,
             requested_version_dirs |->
               IF requested_version_dir \in all_version_dirs
               THEN DictSet(acc.requested_version_dirs, data_dir_root,
                            requested_version_dir)
               ELSE acc.requested_version_dirs,
             listed |-> Append(acc.listed, data_dir_root)])

\* A resolution that warns about the other versions of the default root only.
build_data_dir_warns_default_only(f, given, default_dir, listed_dirs, config_name, version) ==
  LET builder_dir == relative_data_dir(config_name, version, FALSE)
      version_dir == relative_data_dir(config_name, version, TRUE)
      default_data_dir == IF Truthy(given) THEN expanduser(given)
                          ELSE expanduser(default_dir)
      all_data_dirs == IF Truthy(given) THEN <<default_data_dir>> ELSE listed_dirs
      scan == scan_data_dirs(f, all_data_dirs, builder_dir, version_dir, NoScan)
      found == scan.requested_version_dirs
      data_dir == PathJoin(default_data_dir, version_dir)
  IN IF Len(found) > 1
     THEN [status |-> "ValueError", root |-> <<>>, data_dir |-> <<>>,
           msg |-> found, warning |-> {}, listed |-> scan.listed]
     ELSE IF Len(found) = 1
     THEN [status |-> "ok", root |-> found[1].root, data_dir |-> found[1].dir,
           msg |-> <<>>, warning |-> {}, listed |-> scan.listed]
     ELSE [status |-> "ok", root |-> default_data_dir, data_dir |-> data_dir,
           msg |-> <<>>,
           warning |-> list_all_version_dirs(f, PathJoin(default_data_dir, builder_dir)),
           listed |-> scan.listed]

\* `warning` is the set of directories the warning of lines 684-691 names
\* (empty: no warning), `msg` the dict the ValueError of lines 675-678 shows.
build_data_dir(f, given, default_dir, listed_dirs, config_name, version) ==
  LET builder_dir == relative_data_dir(config_name, version, FALSE)
      version_dir == relative_data_dir(config_name, version, TRUE)
      default_data_dir == IF Truthy(given) THEN expanduser(given)
                          ELSE expanduser(default_dir)
      all_data_dirs == IF Truthy(given) THEN <<default_data_dir>> ELSE listed_dirs
      scan == scan_data_dirs(f, all_data_dirs, builder_dir, version_dir, NoScan)
      found == scan.requested_version_dirs
      data_dir == PathJoin(default_data_dir, version_dir)
  IN IF Len(found) > 1
     THEN [status |-> "ValueError", root |-> <<>>, data_dir |-> <<>>,
           msg |-> found, warning |-> {}, listed |-> scan.listed]
     ELSE IF Len(found) = 1
     THEN [status |-> "ok", root |-> found[1].root, data_dir |-> found[1].dir,
           msg |-> <<>>, warning |-> {}, listed |-> scan.listed]
     ELSE [status |-> "ok", root |-> default_data_dir, data_dir |-> data_dir,
           msg |-> <<>>, warning |-> scan.all_version_dirs,
           listed |-> scan.listed]

(***************************************************************************)
(* Values of a builder that runs no call                                   *)
(***************************************************************************)
NoError == [type |-> "none", kind |-> "none", msg |-> <<>>]
NoCall == [download_mode |-> "none", try_download_gcs |-> FALSE,
           is_dataset_on_gcs |-> FALSE, has_sufficient_disk_space |-> FALSE,
           beam_runner |-> FALSE]
NoInfo == [splits |-> <<>>]
NoHist == [fs0 |-> EmptyFs, staged |-> FALSE, generated |-> 0, wrote |-> {},
           body_error |-> NoError, examples |-> <<>>, updates |-> 0,
           retry |-> FALSE]
NoStaging == [dirname |-> <<>>, tmp_dir |-> <<>>, saved |-> <<>>]
NoPeer == [pc |-> "none", tmp_dir |-> <<>>, wrote |-> {}, outcome |-> NoError]
NoArgs == [given |-> FALSE]
NoDatasets == [status |-> "none"]

(***************************************************************************)
(* DatasetBuilder.download_and_prepare: the pre-flight checks              *)
(***************************************************************************)
FORCE_REDOWNLOAD == "force_redownload"
REUSE_CACHE_IF_EXISTS == "reuse_cache_if_exists"
REUSE_DATASET_IF_EXISTS == "reuse_dataset_if_exists"
GenerateModes == {FORCE_REDOWNLOAD, REUSE_CACHE_IF_EXISTS, REUSE_DATASET_IF_EXISTS}

\* _is_py2_download_and_prepare_disabled, line 65
is_py2_download_and_prepare_disabled == TRUE

\* Every candidate version taken as installable.
installable_versions_all(vs) == {VersionStr(vs[i]) : i \in 1..Len(vs)}

\* Lines 315-317: {str(v) for v in (self.canonical_version, max(self.versions))}
installable_versions(vs) == {VersionStr(vs[1]), VersionStr(PyMax(vs))}

\* The rank of a token in the order of characters ("." < "0" < ... < "9").
TokenRank(t) ==
  IF t \in DigitTokens THEN CHOOSE i \in 1..Len(Digits) : Digits[i] = t ELSE 0

\* a < b for two version strings, as Python compares str
StrLess(a, b) ==
  \E i \in 1..Len(a) :
    /\ i <= Len(b)
    /\ \A j \in 1..(i - 1) : a[j] = b[j]
    /\ TokenRank(a[i]) < TokenRank(b[i])

\* list(sorted(strs))
RECURSIVE Sorted(_)
Sorted(strs) ==
  IF strs = {} THEN <<>>
  ELSE LET least == CHOOSE x \in strs : \A y \in strs \ {x} : StrLess(x, y)
       IN <<least>> \o Sorted(strs \ {least})

\* Lines 301-302: the versions without a marker, ", "-joined
available_to_prepare(vs) ==
  Join(<<",", " ">>,
       LET unmarked == SelectSeq(vs, LAMBDA v : ~v.tfds_version_to_prepare)
       IN [i \in 1..Len(unmarked) |-> VersionStr(unmarked[i])])

\* Pre-flight checks in which FORCE_REDOWNLOAD builds over existing data.
preflight_force_overwrites(vs, version, data_exists, c, is_py2, data_dir) ==
  IF data_exists /\ c.download_mode = REUSE_DATASET_IF_EXISTS
  THEN [type |-> "none", kind |-> "reused", msg |-> <<>>]
  ELSE IF is_py2_download_and_prepare_disabled /\ is_py2
  THEN [type |-> "NotImplementedError", kind |-> "py2", msg |-> <<>>]
  ELSE IF version.tfds_version_to_prepare
  THEN [type |-> "AssertionError", kind |-> "marker",
        msg |-> available_to_prepare(vs)]
  ELSE IF VersionStr(version) \notin installable_versions(vs)
  THEN [type |-> "ValueError", kind |-> "not_installable",
        msg |-> Sorted(installable_versions(vs))]
  ELSE IF data_exists /\ c.download_mode # FORCE_REDOWNLOAD
  THEN [type |-> "ValueError", kind |-> "exists", msg |-> data_dir]
  ELSE IF ~c.has_sufficient_disk_space
  THEN [type |-> "IOError", kind |-> "no_space", msg |-> <<>>]
  ELSE NoError

\* Pre-flight checks with the installable versions checked before the marker.
preflight_installable_first(vs, version, data_exists, c, is_py2, data_dir) ==
  IF data_exists /\ c.download_mode = REUSE_DATASET_IF_EXISTS
  THEN [type |-> "none", kind |-> "reused", msg |-> <<>>]
  ELSE IF is_py2_download_and_prepare_disabled /\ is_py2
  THEN [type |-> "NotImplementedError", kind |-> "py2", msg |-> <<>>]
  ELSE IF VersionStr(version) \notin installable_versions(vs)
  THEN [type |-> "ValueError", kind |-> "not_installable",
        msg |-> Sorted(installable_versions(vs))]
  ELSE IF version.tfds_version_to_prepare
  THEN [type |-> "AssertionError", kind |-> "marker",
        msg |-> available_to_prepare(vs)]
  ELSE IF data_exists
  THEN [type |-> "ValueError", kind |-> "exists", msg |-> data_dir]
  ELSE IF ~c.has_sufficient_disk_space
  THEN [type |-> "IOError", kind |-> "no_space", msg |-> <<>>]
  ELSE NoError

\* Pre-flight checks with the reuse of the data decided after the checks of
\* the version.
preflight_checks_before_reuse(vs, version, data_exists, c, is_py2, data_dir) ==
  IF is_py2_download_and_prepare_disabled /\ is_py2
  THEN [type |-> "NotImplementedError", kind |-> "py2", msg |-> <<>>]
  ELSE IF version.tfds_version_to_prepare
  THEN [type |-> "AssertionError", kind |-> "marker",
        msg |-> available_to_prepare(vs)]
  ELSE IF VersionStr(version) \notin installable_versions(vs)
  THEN [type |-> "ValueError", kind |-> "not_installable",
        msg |-> Sorted(installable_versions(vs))]
  ELSE IF data_exists /\ c.download_mode = REUSE_DATASET_IF_EXISTS
  THEN [type |-> "none", kind |-> "reused", msg |-> <<>>]
  ELSE IF data_exists
  THEN [type |-> "ValueError", kind |-> "exists", msg |-> data_dir]
  ELSE IF ~c.has_sufficient_disk_space
  THEN [type |-> "IOError", kind |-> "no_space", msg |-> <<>>]
  ELSE NoError

\* Pre-flight checks without the check of the disk space.
preflight_no_space_check(vs, version, data_exists, c, is_py2, data_dir) ==
  IF data_exists /\ c.download_mode = REUSE_DATASET_IF_EXISTS
  THEN [type |-> "none", kind |-> "reused", msg |-> <<>>]
  ELSE IF is_py2_download_and_prepare_disabled /\ is_py2
  THEN [type |-> "NotImplementedError", kind |-> "py2", msg |-> <<>>]
  ELSE IF version.tfds_version_to_prepare
  THEN [type |-> "AssertionError", kind |-> "marker",
        msg |-> available_to_prepare(vs)]
  ELSE IF VersionStr(version) \notin installable_versions(vs)
  THEN [type |-> "ValueError", kind |-> "not_installable",
        msg |-> Sorted(installable_versions(vs))]
  ELSE IF data_exists
  THEN [type |-> "ValueError", kind |-> "exists", msg |-> data_dir]
  ELSE NoError

\* Lines 287-358, which change nothing: the error the call ends with, "reused"
\* for the early return of line 291, or NoError when the build may start.
preflight(vs, version, data_exists, c, is_py2, data_dir) ==
  IF data_exists /\ c.download_mode = REUSE_DATASET_IF_EXISTS
  THEN [type |-> "none", kind |-> "reused", msg |-> <<>>]
  ELSE IF is_py2_download_and_prepare_disabled /\ is_py2
  THEN [type |-> "NotImplementedError", kind |-> "py2", msg |-> <<>>]
  ELSE IF version.tfds_version_to_prepare
  THEN [type |-> "AssertionError", kind |-> "marker",
        msg |-> available_to_prepare(vs)]
  ELSE IF VersionStr(version) \notin installable_versions(vs)
  THEN [type |-> "ValueError", kind |-> "not_installable",
        msg |-> Sorted(installable_versions(vs))]
  ELSE IF data_exists
  THEN [type |-> "ValueError", kind |-> "exists", msg |-> data_dir]
  ELSE IF ~c.has_sufficient_disk_space
  THEN [type |-> "IOError", kind |-> "no_space", msg |-> <<>>]
  ELSE NoError

(***************************************************************************)
(* Files of a version directory                                            *)
(***************************************************************************)
\* The metadata file info.write_to_directory writes.
InfoFile == <<"dataset_info.json">>

\* Shard i of n of a split: {dataset}-{split}.tfrecord-{i}-of-{n}
ShardFile(split, i, n) ==
  DatasetName \o <<"-", split, ".tfrecord-", DigitStr(i - 1), "-of-", DigitStr(n)>>

ShardFiles(split, shard_lengths) ==
  {ShardFile(split, i, Len(shard_lengths)) : i \in 1..Len(shard_lengths)}

\* What an interrupted writer may leave behind.
PartialFile(split) == DatasetName \o <<"-", split, ".tfrecord", ".partial">>

RECURSIVE SumSeq(_)
SumSeq(q) == IF q = <<>> THEN 0 ELSE Head(q) + SumSeq(Tail(q))

\* The shard lengths a writer may report.
ShardLengthChoices ==
  {<<n>> : n \in 1..MaxExamples}
  \cup UNION {{<<a, b>> : b \in 1..(MaxExamples - a)} : a \in 1..MaxExamples}

\* writer.finalize() after n examples were written: the lengths of the shards
\* the writer made of them.
Finalize(n) == {q \in ShardLengthChoices : SumSeq(q) = n}

SplitInfo(name, shard_lengths) ==
  [name |-> name, shard_lengths |-> shard_lengths, num_bytes |-> SumSeq(shard_lengths)]

\* Files written into dir
WriteFiles(f, dir, files) == [f EXCEPT ![dir] = @ \cup files]

\* tf.io.gfile.rmtree(path)
RmTree(f, path) ==
  [q \in {d \in DOMAIN f :
            ~(d = path \/ (Len(d) > Len(path)
                            /\ SubSeq(d, 1, Len(path) + 1) = path \o <<"/">>))}
     |-> f[q]]

\* tf.io.gfile.rename(src, dst) of a directory, dst absent
Rename(f, src, dst) ==
  [q \in (DOMAIN f \ {src}) \cup {dst} |-> IF q = dst THEN f[src] ELSE f[q]]

\* The metadata of dir set to catalog
PutInfo(di, dir, catalog) ==
  [q \in DOMAIN di \cup {dir} |-> IF q = dir THEN catalog ELSE di[q]]

\* str(name).lower()
Lower(name) == IF name = "ALL" THEN "all" ELSE name

(***************************************************************************)
(* Inputs of version resolution                                            *)
(***************************************************************************)
PlainVersions ==
  {Version(a, b, c, FALSE) : a \in 0..MaxMajor, b \in 0..MaxMinor, c \in 0..MaxPatch}

SeqsUpTo(S, n) == UNION {[1..k -> S] : k \in 0..n}

MajorTokens == {DigitStr(a) : a \in 0..MaxMajor} \cup {"*"}
MinorTokens == {DigitStr(a) : a \in 0..MaxMinor} \cup {"*"}
PatchTokens == {DigitStr(a) : a \in 0..MaxPatch} \cup {"*"}

VersionRequests ==
  {<<a>> : a \in MajorTokens}
  \cup {<<a, ".", b>> : a \in MajorTokens, b \in MinorTokens}
  \cup {<<a, ".", b, ".", c>> : a \in MajorTokens, b \in MinorTokens, c \in PatchTokens}

Requests == VersionRequests \cup {NoneVal, LatestRequest}

NotPicked == [status |-> "none", version |-> NoVersion, msg |-> <<>>]
NotLocated ==
  [status |-> "none", root |-> <<>>, data_dir |-> <<>>, msg |-> <<>>,
   warning |-> {}, listed |-> <<>>]

\* The builder before download_and_prepare is ever called.
BuilderIdle ==
  /\ info = NoInfo
  /\ disk_info = EmptyFs
  /\ split_generators = <<>>
  /\ py2 = FALSE
  /\ pc = "idle"
  /\ call = NoCall
  /\ staging = NoStaging
  /\ split_dict = <<>>
  /\ raised = NoError
  /\ outcome = NoError
  /\ hist = NoHist
  /\ builder_class = "GeneratorBasedBuilder"
  /\ beam_writers = <<>>
  /\ peer = NoPeer
  /\ as_dataset_args = NoArgs
  /\ datasets = NoDatasets

InitVersion ==
  /\ \E c \in PlainVersions, s \in SeqsUpTo(PlainVersions, MaxSupported) :
       versions = <<c>> \o s
  /\ requested \in Requests
  /\ picked = NotPicked
  /\ builder_config = NoneVal
  /\ given_data_dir = NoneVal
  /\ DATA_DIR = <<"~", "/", "tensorflow_datasets">>
  /\ data_dirs = <<>>
  /\ fs = EmptyFs
  /\ located = NotLocated
  /\ self_data_dir = <<>>
  /\ BuilderIdle

\* __init__, line 200: self._version = self._pick_version(version)
PickVersion ==
  /\ picked.status = "none"
  /\ picked' = pick_version(versions, requested)
  /\ UNCHANGED <<versions, requested, fs>>
  /\ UNCHANGED lvars
  /\ UNCHANGED bvars

NextVersion == PickVersion

SpecVersion == InitVersion /\ [][NextVersion]_vars

(***************************************************************************)
(* Inputs of location resolution                                           *)
(***************************************************************************)
\* constants.DATA_DIR: the default, or the TFDS_DATA_DIR of the environment
DefaultDataDirs == {<<"~", "/", "tensorflow_datasets">>, <<"data">>}

\* A root registered besides the default one.
ExtraRoot(i) == <<"mnt", DigitStr(i)>>

\* constants.list_data_dirs(): the default root first, then the others.
list_data_dirs(default_dir, k) ==
  <<expanduser(default_dir)>> \o [i \in 1..k |-> ExtraRoot(i)]

GivenRoots == DefaultDataDirs \cup {ExtraRoot(i) : i \in 1..MaxExtraRoots}

StorageRoots == {expanduser(r) : r \in GivenRoots}

ConfigNames == {NoneVal, <<"c">>}

LocateVersion == Version(1, 0, 0, FALSE)

\* utils.get_incomplete_path(dirname): dirname + ".incomplete" + a random tag
incomplete_path(dirname, tag) == dirname \o <<".incomplete", tag>>

\* Names a directory under <root>/<name>[/<config>] may have: the requested
\* version, another version, the leftover of an interrupted build.
DirNames ==
  {VersionStr(LocateVersion), VersionStr(Version(0, 0, 1, FALSE)),
   incomplete_path(VersionStr(LocateVersion), "A")}

\* The files of a complete version: the metadata and the shards it names.
CompleteFiles == ShardFiles("train", <<1>>) \cup {InfoFile}

\* The names of DirNames that are versions.
VersionDirNames == {n \in DirNames : IsVersionStr(n)}

\* The roots whose version directories are complete; under the other roots
\* they are bare directories, without metadata and shards.
CompleteRoots == {expanduser(r) : r \in DefaultDataDirs}

\* The filesystem in which exactly the directories of dirs were made.
FsWith(dirs) == [q \in UNION {Ancestors(d) : d \in dirs} |-> {}]

InitLocate ==
  /\ versions = <<LocateVersion>>
  /\ requested = NoneVal
  /\ picked = pick_version(versions, requested)
  /\ builder_config \in ConfigNames
  /\ given_data_dir \in {NoneVal} \cup GivenRoots
  /\ DATA_DIR \in DefaultDataDirs
  /\ \E k \in 0..MaxExtraRoots : data_dirs = list_data_dirs(DATA_DIR, k)
  /\ \E present \in SUBSET (StorageRoots \X DirNames) :
       LET path(e) == PathJoin(PathJoin(e[1],
                        relative_data_dir(builder_config, LocateVersion, FALSE)), e[2])
           bare == FsWith({path(e) : e \in present})
           complete == {path(e) : e \in present \cap (CompleteRoots \X VersionDirNames)}
       IN fs = [q \in DOMAIN bare |-> IF q \in complete THEN CompleteFiles ELSE {}]
  /\ located = NotLocated
  /\ self_data_dir = <<>>
  /\ BuilderIdle

\* __init__, line 202: self._data_dir_root, self._data_dir = self._build_data_dir(data_dir)
Locate ==
  /\ picked.status = "ok"
  /\ located.status = "none"
  /\ located' = build_data_dir(fs, given_data_dir, DATA_DIR, data_dirs,
                               builder_config, picked.version)
  /\ UNCHANGED <<builder_config, given_data_dir, DATA_DIR, data_dirs, fs>>
  /\ UNCHANGED vvars
  /\ UNCHANGED bvars

NextLocate == Locate

SpecLocate == InitLocate /\ [][NextLocate]_vars


(***************************************************************************)
(* DatasetBuilder.as_dataset, _build_single_dataset and _should_cache_ds   *)
(***************************************************************************)
MaxBatch == 1

\* units.MiB
MiB == 1048576

\* sys.maxsize, as the largest integer of the model
sys_maxsize == 2147483647

\* An optional integer: None, or a value.
None == [is_none |-> TRUE, value |-> 0]
Some(n) == [is_none |-> FALSE, value |-> n]

\* bool(x) of an optional integer
TruthyInt(x) == ~x.is_none /\ x.value # 0

\* self.info.splits.total_num_examples: the examples of all the splits
total_num_examples(splits) ==
  SumSeq([i \in 1..Len(splits) |-> SumSeq(splits[i].shard_lengths)])

\* self.info.dataset_size: the bytes of all the splits
dataset_size(splits) == SumSeq([i \in 1..Len(splits) |-> splits[i].num_bytes])

\* self.info.splits[split]
SplitOf(splits, split) ==
  splits[CHOOSE i \in 1..Len(splits) : splits[i].name = split]

\* Line 618: len(self.info.splits[split].file_instructions), a file per shard
num_shards(splits, split) == Len(SplitOf(splits, split).shard_lengths)

\* An auto-caching decision that caches nothing of exactly 250 MiB.
should_cache_ds_below_threshold(splits, split, shuffle_files, read_config) ==
  IF ~read_config.try_autocache THEN FALSE
  ELSE IF dataset_size(splits) = 0 THEN FALSE
  ELSE IF dataset_size(splits) >= 250 * MiB THEN FALSE
  ELSE IF /\ shuffle_files
          /\ read_config.shuffle_reshuffle_each_iteration # "False"
          /\ num_shards(splits, split) > 1
  THEN FALSE
  ELSE TRUE

\* Lines 590-626: DatasetBuilder._should_cache_ds
should_cache_ds(splits, split, shuffle_files, read_config) ==
  IF ~read_config.try_autocache THEN FALSE
  ELSE IF dataset_size(splits) = 0 THEN FALSE
  ELSE IF dataset_size(splits) > 250 * MiB THEN FALSE
  ELSE IF /\ shuffle_files
          /\ read_config.shuffle_reshuffle_each_iteration # "False"
          /\ num_shards(splits, split) > 1
  THEN FALSE
  ELSE TRUE

\* read_config_lib.ReadConfig()
DefaultReadConfig ==
  [try_autocache |-> TRUE, shuffle_reshuffle_each_iteration |-> "None",
   experimental_deterministic |-> "None", shuffle_seed |-> None]

\* A stage of a tf.data pipeline
Stage(op, arg) == [op |-> op, arg |-> arg]

\* ds.<op>(arg) when cond holds, ds otherwise
StageIf(cond, ds, op, arg) == IF cond THEN Append(ds, Stage(op, arg)) ELSE ds

\* A single dataset in which the whole-split batch is as large as the split.
build_single_dataset_split_count(splits, supervised_keys, split, a) ==
  LET wants_full_dataset == ~a.batch_size.is_none /\ a.batch_size.value = -1
      own == SumSeq(SplitOf(splits, split).shard_lengths)
      batch_size == IF wants_full_dataset
                    THEN Some(IF own # 0 THEN own ELSE sys_maxsize)
                    ELSE a.batch_size
      base == <<Stage("read", 0)>>
      cached == StageIf(should_cache_ds(splits, split, a.shuffle_files,
                                        a.read_config),
                        base, "cache", 0)
      batched == StageIf(TruthyInt(batch_size), cached, "padded_batch",
                         batch_size.value)
      mapped == StageIf(a.as_supervised, batched, "map_supervised", 0)
      fetched == Append(mapped, Stage("prefetch", 0))
      ds == StageIf(/\ a.shuffle_files
                    /\ a.read_config.experimental_deterministic = "None"
                    /\ a.read_config.shuffle_seed.is_none,
                    fetched, "with_options_not_deterministic", 0)
  IN IF a.as_supervised /\ ~supervised_keys
     THEN [status |-> "ValueError", ds |-> <<>>, single_element |-> FALSE]
     ELSE [status |-> "ok", ds |-> ds, single_element |-> wants_full_dataset]

\* A single dataset marked as not deterministic whenever files are shuffled.
build_single_dataset_shuffle_only(splits, supervised_keys, split, a) ==
  LET wants_full_dataset == ~a.batch_size.is_none /\ a.batch_size.value = -1
      batch_size == IF wants_full_dataset
                    THEN Some(IF total_num_examples(splits) # 0
                              THEN total_num_examples(splits) ELSE sys_maxsize)
                    ELSE a.batch_size
      base == <<Stage("read", 0)>>
      cached == StageIf(should_cache_ds(splits, split, a.shuffle_files,
                                        a.read_config),
                        base, "cache", 0)
      batched == StageIf(TruthyInt(batch_size), cached, "padded_batch",
                         batch_size.value)
      mapped == StageIf(a.as_supervised, batched, "map_supervised", 0)
      fetched == Append(mapped, Stage("prefetch", 0))
      ds == StageIf(a.shuffle_files,
                    fetched, "with_options_not_deterministic", 0)
  IN IF a.as_supervised /\ ~supervised_keys
     THEN [status |-> "ValueError", ds |-> <<>>, single_element |-> FALSE]
     ELSE [status |-> "ok", ds |-> ds, single_element |-> wants_full_dataset]

\* Lines 528-588: DatasetBuilder._build_single_dataset. The dataset is the
\* sequence of the stages applied to it.
build_single_dataset(splits, supervised_keys, split, a) ==
  LET wants_full_dataset == ~a.batch_size.is_none /\ a.batch_size.value = -1
      batch_size == IF wants_full_dataset
                    THEN Some(IF total_num_examples(splits) # 0
                              THEN total_num_examples(splits) ELSE sys_maxsize)
                    ELSE a.batch_size
      base == <<Stage("read", 0)>>
      cached == StageIf(should_cache_ds(splits, split, a.shuffle_files,
                                        a.read_config),
                        base, "cache", 0)
      batched == StageIf(TruthyInt(batch_size), cached, "padded_batch",
                         batch_size.value)
      mapped == StageIf(a.as_supervised, batched, "map_supervised", 0)
      fetched == Append(mapped, Stage("prefetch", 0))
      ds == StageIf(/\ a.shuffle_files
                    /\ a.read_config.experimental_deterministic = "None"
                    /\ a.read_config.shuffle_seed.is_none,
                    fetched, "with_options_not_deterministic", 0)
  IN IF a.as_supervised /\ ~supervised_keys
     THEN [status |-> "ValueError", ds |-> <<>>, single_element |-> FALSE]
     ELSE [status |-> "ok", ds |-> ds, single_element |-> wants_full_dataset]

\* A read that goes on without looking for the version directory.
as_dataset_no_existence_check(f, data_dir, data_dir_root, splits, a) ==
  LET names == IF a.split = "None"
               THEN {splits[i].name : i \in 1..Len(splits)}
               ELSE {a.split} \cap {splits[i].name : i \in 1..Len(splits)}
      each == [s \in names |->
                 build_single_dataset(splits, a.supervised_keys, s, a)]
  IN IF \E s \in names : each[s].status # "ok"
     THEN [status |-> "ValueError", msg |-> DatasetName, is_dict |-> FALSE,
           value |-> [s \in {} |-> <<>>]]
     ELSE [status |-> "ok", msg |-> <<>>, is_dict |-> a.split = "None",
           value |-> each]

\* A read of every split that returns the first split of the catalog only.
as_dataset_first_split_only(f, data_dir, data_dir_root, splits, a) ==
  IF ~Exists(f, data_dir)
  THEN [status |-> "AssertionError", msg |-> data_dir_root, is_dict |-> FALSE,
        value |-> [s \in {} |-> <<>>]]
  ELSE LET names == IF a.split = "None"
                    THEN {splits[i].name : i \in 1..Len(splits) \cap {1}}
                    ELSE {a.split}
           each == [s \in names |->
                      build_single_dataset(splits, a.supervised_keys, s, a)]
       IN IF \E s \in names : each[s].status # "ok"
          THEN [status |-> "ValueError", msg |-> DatasetName, is_dict |-> FALSE,
                value |-> [s \in {} |-> <<>>]]
          ELSE [status |-> "ok", msg |-> <<>>, is_dict |-> a.split = "None",
                value |-> each]

\* Lines 501-526: DatasetBuilder.as_dataset. `msg` is what the error names,
\* `value` the dataset of each split that was asked.
as_dataset(f, data_dir, data_dir_root, splits, a) ==
  IF ~Exists(f, data_dir)
  THEN [status |-> "AssertionError", msg |-> data_dir_root, is_dict |-> FALSE,
        value |-> [s \in {} |-> <<>>]]
  ELSE LET names == IF a.split = "None"
                    THEN {splits[i].name : i \in 1..Len(splits)}
                    ELSE {a.split}
           each == [s \in names |->
                      build_single_dataset(splits, a.supervised_keys, s, a)]
       IN IF \E s \in names : each[s].status # "ok"
          THEN [status |-> "ValueError", msg |-> DatasetName, is_dict |-> FALSE,
                value |-> [s \in {} |-> <<>>]]
          ELSE [status |-> "ok", msg |-> <<>>, is_dict |-> a.split = "None",
                value |-> each]

(***************************************************************************)
(* The life of a builder: __init__, then calls of download_and_prepare     *)
(***************************************************************************)
\* The builder class of the build runs: VERSION and SUPPORTED_VERSIONS, some
\* of them marked as preparable by older code only.
BuilderVersions ==
  <<Version(1, 0, 0, FALSE), Version(0, 0, 1, FALSE),
    Version(0, 0, 0, TRUE), Version(1, 0, 1, TRUE)>>

BuilderRequests ==
  {NoneVal, LatestRequest, <<"0", ".", "0", ".", "1">>, <<"0", ".", "0", ".", "0">>}

\* What _split_generators may return: the names of the splits, in order.
SplitGeneratorLists == {<<"train">>, <<"train", "test">>, <<"train", "all">>}

\* The random part of the name of a staging directory.
Tags == {"A", "B"}

\* The catalog and the files of a version built earlier.
BuiltCatalog == <<SplitInfo("train", <<1>>)>>
BuiltFiles == ShardFiles("train", <<1>>) \cup {InfoFile}

\* The catalog and the files of the copy of the dataset kept on GCS.
GcsCatalog == <<SplitInfo("train", <<1>>)>>
GcsFiles == ShardFiles("train", <<1>>) \cup {InfoFile}

\* Line 1160: self._beam_writers[split_name] = beam_writer
SetWriter(writers, name, written) ==
  IF \E i \in 1..Len(writers) : writers[i].name = name
  THEN [i \in 1..Len(writers) |->
          IF writers[i].name = name THEN [name |-> name, written |-> written]
          ELSE writers[i]]
  ELSE Append(writers, [name |-> name, written |-> written])

\* The classes a dataset builder derives from.
BuilderClasses == {"GeneratorBasedBuilder", "BeamBasedBuilder"}

\* The version directory computed at construction.
FinalDir == located.data_dir

\* __init__, lines 200-206.
Init ==
  /\ versions = BuilderVersions
  /\ requested \in BuilderRequests
  /\ picked = pick_version(versions, requested)
  /\ builder_config = NoneVal
  /\ given_data_dir = NoneVal
  /\ DATA_DIR = <<"~", "/", "tensorflow_datasets">>
  /\ data_dirs = list_data_dirs(DATA_DIR, 0)
  /\ \E built \in BOOLEAN :
       LET dir == PathJoin(expanduser(DATA_DIR),
                           relative_data_dir(builder_config, picked.version, TRUE))
       IN /\ fs = IF built THEN WriteFiles(FsWith({dir}), dir, BuiltFiles)
                   ELSE EmptyFs
          /\ disk_info = IF built THEN PutInfo(EmptyFs, dir, BuiltCatalog)
                          ELSE EmptyFs
  /\ located = build_data_dir(fs, given_data_dir, DATA_DIR, data_dirs,
                              builder_config, picked.version)
  /\ self_data_dir = located.data_dir
  /\ info = IF Exists(fs, self_data_dir)
            THEN [splits |-> disk_info[self_data_dir]]
            ELSE NoInfo
  /\ split_generators \in SplitGeneratorLists
  /\ py2 \in BOOLEAN
  /\ pc = "idle"
  /\ call = NoCall
  /\ staging = NoStaging
  /\ split_dict = <<>>
  /\ raised = NoError
  /\ outcome = NoError
  /\ hist = NoHist
  /\ builder_class \in BuilderClasses
  /\ beam_writers = <<>>
  /\ peer = NoPeer
  /\ as_dataset_args = NoArgs
  /\ datasets = NoDatasets

built_vars == <<versions, requested, picked, builder_config, given_data_dir,
                DATA_DIR, data_dirs, located, split_generators, py2,
                builder_class>>

\* What a step of a running download_and_prepare leaves alone.
call_vars == <<built_vars, beam_writers, peer, as_dataset_args, datasets>>

\* What a step of a Beam build leaves alone.
beam_vars == <<built_vars, peer, as_dataset_args, datasets>>

\* Lines 287-363: the call starts, and ends at once when a pre-flight check
\* fails or the data is reused. The arguments and the environment of the call
\* are drawn from the sets given.
StartCall(modes, gcs, disk_space) ==
  /\ pc = "idle"
  /\ \E mode \in modes, try_gcs \in gcs, on_gcs \in gcs,
        space \in disk_space,
        runner \in IF builder_class = "BeamBasedBuilder" THEN BOOLEAN ELSE {FALSE} :
       LET c == [download_mode |-> mode, try_download_gcs |-> try_gcs,
                 is_dataset_on_gcs |-> on_gcs,
                 has_sufficient_disk_space |-> space,
                 beam_runner |-> runner]
           r == preflight(versions, picked.version, Exists(fs, self_data_dir), c,
                          py2, self_data_dir)
       IN /\ call' = c
          /\ hist' = [NoHist EXCEPT
                        !.fs0 = fs,
                        !.retry = hist.staged /\ hist.wrote # {}
                                   /\ outcome.type # "none"]
          /\ IF r = NoError
             THEN pc' = "open" /\ outcome' = NoError
             ELSE pc' = "idle" /\ outcome' = r
  /\ UNCHANGED <<fs, self_data_dir, info, disk_info, staging, split_dict, raised>>
  /\ UNCHANGED call_vars

\* download_and_prepare called with any download mode, in any environment.
Preflight == StartCall(GenerateModes, BOOLEAN, BOOLEAN)

\* A staging area that does not rebind self._data_dir.
OpenStaging_no_rebind ==
  /\ pc = "open"
  /\ \E tag \in Tags :
       LET tmp == incomplete_path(self_data_dir, tag)
       IN /\ ~Exists(fs, tmp)
          /\ fs' = MakeDirs(fs, tmp)
          /\ staging' = [dirname |-> self_data_dir, tmp_dir |-> tmp,
                         saved |-> self_data_dir]
          /\ self_data_dir' = self_data_dir
  /\ hist' = [hist EXCEPT !.staged = TRUE]
  /\ pc' = "body"
  /\ UNCHANGED <<info, disk_info, call, split_dict, raised, outcome>>
  /\ UNCHANGED call_vars

\* A rebinding that keeps the staging directory as the value to restore.
OpenStaging_saves_tmp ==
  /\ pc = "open"
  /\ \E tag \in Tags :
       LET tmp == incomplete_path(self_data_dir, tag)
       IN /\ ~Exists(fs, tmp)
          /\ fs' = MakeDirs(fs, tmp)
          /\ staging' = [dirname |-> self_data_dir, tmp_dir |-> tmp,
                         saved |-> tmp]
          /\ self_data_dir' = tmp
  /\ hist' = [hist EXCEPT !.staged = TRUE]
  /\ pc' = "body"
  /\ UNCHANGED <<info, disk_info, call, split_dict, raised, outcome>>
  /\ UNCHANGED call_vars

\* Lines 366-369: utils.incomplete_dir makes the staging directory, and
\* utils.temporary_assignment rebinds self._data_dir to it.
OpenStaging ==
  /\ pc = "open"
  /\ \E tag \in Tags :
       LET tmp == incomplete_path(self_data_dir, tag)
       IN /\ ~Exists(fs, tmp)
          /\ fs' = MakeDirs(fs, tmp)
          /\ staging' = [dirname |-> self_data_dir, tmp_dir |-> tmp,
                         saved |-> self_data_dir]
          /\ self_data_dir' = tmp
  /\ hist' = [hist EXCEPT !.staged = TRUE]
  /\ pc' = "body"
  /\ UNCHANGED <<info, disk_info, call, split_dict, raised, outcome>>
  /\ UNCHANGED call_vars

UsesGcs == call.try_download_gcs /\ call.is_dataset_on_gcs

\* Lines 370-374: the dataset is copied from GCS and its metadata read.
DownloadGcs ==
  /\ pc = "body"
  /\ UsesGcs
  /\ fs' = WriteFiles(fs, self_data_dir, GcsFiles)
  /\ disk_info' = PutInfo(disk_info, self_data_dir, GcsCatalog)
  /\ info' = [splits |-> GcsCatalog]
  /\ hist' = [hist EXCEPT !.wrote = @ \cup GcsFiles]
  /\ pc' = "unwind"
  /\ UNCHANGED <<self_data_dir, call, staging, split_dict, raised, outcome>>
  /\ UNCHANGED call_vars

\* A start that makes the final directory instead of self._data_dir.
BeginSplits_makes_final ==
  /\ pc = "body"
  /\ ~UsesGcs
  /\ (builder_class = "GeneratorBasedBuilder" \/ call.beam_runner)
  /\ fs' = IF ~Exists(fs, staging.dirname) THEN MakeDirs(fs, staging.dirname) ELSE fs
  /\ split_dict' = <<>>
  /\ pc' = "splits"
  /\ UNCHANGED <<self_data_dir, info, disk_info, call, staging, raised, outcome, hist>>
  /\ UNCHANGED call_vars

\* Lines 1104-1111: a Beam build without runner and options is refused.
BeamNoRunner ==
  /\ pc = "body"
  /\ ~UsesGcs
  /\ builder_class = "BeamBasedBuilder"
  /\ ~call.beam_runner
  /\ raised' = [type |-> "ValueError", kind |-> "beam_runner", msg |-> <<>>]
  /\ hist' = [hist EXCEPT !.body_error = raised']
  /\ pc' = "unwind"
  /\ UNCHANGED <<fs, self_data_dir, info, disk_info, call, staging, split_dict,
                 outcome>>
  /\ UNCHANGED call_vars

\* The build starts: a GeneratorBasedBuilder at once (line 1021), a
\* BeamBasedBuilder inside its pipeline (lines 1121-1130).
RunsSplits == builder_class = "GeneratorBasedBuilder" \/ call.beam_runner

\* Lines 934-943: FileAdapterBuilder._download_and_prepare starts.
BeginSplits ==
  /\ pc = "body"
  /\ ~UsesGcs
  /\ RunsSplits
  /\ fs' = IF ~Exists(fs, self_data_dir) THEN MakeDirs(fs, self_data_dir) ELSE fs
  /\ split_dict' = <<>>
  /\ pc' = "splits"
  /\ UNCHANGED <<self_data_dir, info, disk_info, call, staging, raised, outcome, hist>>
  /\ UNCHANGED call_vars

NextSplit == split_generators[Len(split_dict) + 1]

\* A check of the reserved name made after the split was added and written.
RejectAllSplit_after_write ==
  /\ pc = "splits"
  /\ Len(split_dict) < Len(split_generators)
  /\ Lower(NextSplit) = "all"
  /\ fs' = WriteFiles(fs, self_data_dir, ShardFiles(NextSplit, <<1>>))
  /\ split_dict' = Append(split_dict, SplitInfo(NextSplit, <<1>>))
  /\ raised' = [type |-> "ValueError", kind |-> "all_split", msg |-> <<>>]
  /\ hist' = [hist EXCEPT !.body_error = raised']
  /\ pc' = "unwind"
  /\ UNCHANGED <<self_data_dir, info, disk_info, call, staging, outcome>>
  /\ UNCHANGED call_vars

\* Lines 944-949: the reserved split name
RejectAllSplit ==
  /\ pc = "splits"
  /\ Len(split_dict) < Len(split_generators)
  /\ Lower(NextSplit) = "all"
  /\ raised' = [type |-> "ValueError", kind |-> "all_split", msg |-> <<>>]
  /\ hist' = [hist EXCEPT !.body_error = raised']
  /\ pc' = "unwind"
  /\ UNCHANGED <<fs, self_data_dir, info, disk_info, call, staging, split_dict,
                 outcome>>
  /\ UNCHANGED call_vars

\* A split whose shard lengths are added to those info.splits holds for it.
PrepareSplit_extends_old ==
  /\ pc = "splits"
  /\ builder_class = "GeneratorBasedBuilder"
  /\ Len(split_dict) < Len(split_generators)
  /\ Lower(NextSplit) # "all"
  /\ \E n \in 1..MaxExamples :
       \E shard_lengths \in Finalize(n) :
         LET old == IF \E i \in 1..Len(info.splits) : info.splits[i].name = NextSplit
                    THEN SplitOf(info.splits, NextSplit).shard_lengths
                    ELSE <<>>
         IN /\ fs' = WriteFiles(fs, self_data_dir, ShardFiles(NextSplit, shard_lengths))
            /\ split_dict' = Append(split_dict,
                                    SplitInfo(NextSplit, old \o shard_lengths))
            /\ hist' = [hist EXCEPT !.generated = @ + 1,
                                    !.examples = Append(@, n),
                                    !.wrote = @ \cup ShardFiles(NextSplit, shard_lengths)]
  /\ UNCHANGED <<self_data_dir, info, disk_info, pc, call, staging, raised, outcome>>
  /\ UNCHANGED call_vars

\* A writer given the final directory instead of self._data_dir.
PrepareSplit_into_final ==
  /\ pc = "splits"
  /\ builder_class = "GeneratorBasedBuilder"
  /\ Len(split_dict) < Len(split_generators)
  /\ Lower(NextSplit) # "all"
  /\ \E n \in 1..MaxExamples :
       \E shard_lengths \in Finalize(n) :
         /\ fs' = WriteFiles(IF Exists(fs, staging.dirname) THEN fs
                             ELSE MakeDirs(fs, staging.dirname),
                             staging.dirname, ShardFiles(NextSplit, shard_lengths))
         /\ split_dict' = Append(split_dict, SplitInfo(NextSplit, shard_lengths))
         /\ hist' = [hist EXCEPT !.generated = @ + 1,
                                 !.examples = Append(@, n),
                                 !.wrote = @ \cup ShardFiles(NextSplit, shard_lengths)]
  /\ UNCHANGED <<self_data_dir, info, disk_info, pc, call, staging, raised, outcome>>
  /\ UNCHANGED call_vars

\* Lines 951-955 and 1026-1043: one split is added to split_dict, generated
\* and written; its shard lengths and size are recorded.
PrepareSplit ==
  /\ pc = "splits"
  /\ builder_class = "GeneratorBasedBuilder"
  /\ Len(split_dict) < Len(split_generators)
  /\ Lower(NextSplit) # "all"
  /\ \E n \in 1..MaxExamples :
       \E shard_lengths \in Finalize(n) :
         /\ fs' = WriteFiles(fs, self_data_dir, ShardFiles(NextSplit, shard_lengths))
         /\ split_dict' = Append(split_dict, SplitInfo(NextSplit, shard_lengths))
         /\ hist' = [hist EXCEPT !.generated = @ + 1,
                                 !.examples = Append(@, n),
                                 !.wrote = @ \cup ShardFiles(NextSplit, shard_lengths)]
  /\ UNCHANGED <<self_data_dir, info, disk_info, pc, call, staging, raised, outcome>>
  /\ UNCHANGED call_vars

\* A writer that finalizes its shards before it reports the key met twice.
PrepareSplitRaises_after_finalize ==
  /\ pc = "splits"
  /\ builder_class = "GeneratorBasedBuilder"
  /\ Len(split_dict) < Len(split_generators)
  /\ Lower(NextSplit) # "all"
  /\ split_dict' = Append(split_dict, SplitInfo(NextSplit, <<1>>))
  /\ fs' = WriteFiles(fs, self_data_dir, ShardFiles(NextSplit, <<1>>))
  /\ \E kind \in {"generator", "duplicate_key"} :
       raised' = [type |-> IF kind = "generator" THEN "GeneratorError"
                           ELSE "DuplicateKeyError",
                  kind |-> kind, msg |-> <<>>]
  /\ hist' = [hist EXCEPT !.generated = @ + 1, !.body_error = raised']
  /\ pc' = "unwind"
  /\ UNCHANGED <<self_data_dir, info, disk_info, call, staging, outcome>>
  /\ UNCHANGED call_vars

\* Lines 952 and 1026-1041: the split is added to split_dict, then the
\* generator raises or the writer meets a key twice; no shard is finalized,
\* the writer may leave a partial file.
PrepareSplitRaises ==
  /\ pc = "splits"
  /\ builder_class = "GeneratorBasedBuilder"
  /\ Len(split_dict) < Len(split_generators)
  /\ Lower(NextSplit) # "all"
  /\ split_dict' = Append(split_dict, SplitInfo(NextSplit, <<>>))
  /\ \E partial \in BOOLEAN :
       fs' = IF partial
             THEN WriteFiles(fs, self_data_dir, {PartialFile(NextSplit)})
             ELSE fs
  /\ \E kind \in {"generator", "duplicate_key"} :
       raised' = [type |-> IF kind = "generator" THEN "GeneratorError"
                           ELSE "DuplicateKeyError",
                  kind |-> kind, msg |-> <<>>]
  /\ hist' = [hist EXCEPT !.generated = @ + 1, !.body_error = raised']
  /\ pc' = "unwind"
  /\ UNCHANGED <<self_data_dir, info, disk_info, call, staging, outcome>>
  /\ UNCHANGED call_vars

SplitNames(catalog) == {catalog[i].name : i \in 1..Len(catalog)}

\* Line 958: self.info.update_splits_if_different(split_dict)
UpdateSplits ==
  /\ pc = "splits"
  /\ Len(split_dict) = Len(split_generators)
  /\ IF info.splits # <<>> /\ SplitNames(info.splits) # SplitNames(split_dict)
     THEN /\ raised' = [type |-> "InconsistentSplitsError",
                        kind |-> "inconsistent_splits", msg |-> <<>>]
          /\ hist' = [hist EXCEPT !.body_error = raised']
          /\ pc' = "unwind"
          /\ info' = info
     ELSE /\ info' = [splits |-> split_dict]
          /\ pc' = IF builder_class = "BeamBasedBuilder" THEN "pipeline" ELSE "stats"
          /\ raised' = raised
          /\ hist' = [hist EXCEPT !.updates = @ + 1]
  /\ UNCHANGED <<fs, self_data_dir, disk_info, call, staging, split_dict, outcome>>
  /\ UNCHANGED call_vars

\* Lines 950-955 and 1144-1177: a Beam split is added to split_dict and its
\* writer registered in self._beam_writers; nothing is written yet.
BeamPrepareSplit ==
  /\ pc = "splits"
  /\ builder_class = "BeamBasedBuilder"
  /\ Len(split_dict) < Len(split_generators)
  /\ Lower(NextSplit) # "all"
  /\ fs' = IF ~Exists(fs, self_data_dir) THEN MakeDirs(fs, self_data_dir) ELSE fs
  /\ split_dict' = Append(split_dict, SplitInfo(NextSplit, <<>>))
  /\ beam_writers' = SetWriter(beam_writers, NextSplit, <<>>)
  /\ UNCHANGED <<self_data_dir, info, disk_info, pc, call, staging, raised, outcome,
                 hist>>
  /\ UNCHANGED beam_vars

\* Lines 1121-1130: the `with beam.Pipeline` block ends and the pipeline runs:
\* every writer writes the shards of its split.
BeamRunPipeline ==
  /\ pc = "pipeline"
  /\ \E written \in [1..Len(beam_writers) -> ShardLengthChoices] :
       /\ beam_writers' = [i \in 1..Len(beam_writers) |->
                             [beam_writers[i] EXCEPT !.written = written[i]]]
       /\ LET files == UNION {ShardFiles(beam_writers[i].name, written[i]) :
                                i \in 1..Len(beam_writers)}
          IN /\ fs' = WriteFiles(fs, self_data_dir, files)
             /\ hist' = [hist EXCEPT
                           !.generated = @ + Len(beam_writers),
                           !.examples = [i \in 1..Len(beam_writers) |->
                                           SumSeq(written[i])],
                           !.wrote = @ \cup files]
  /\ pc' = "beam_finalize"
  /\ UNCHANGED <<self_data_dir, info, disk_info, call, staging, split_dict, raised,
                 outcome>>
  /\ UNCHANGED beam_vars

\* The writers whose shard lengths info.splits does not hold yet.
NotFinalized ==
  {i \in 1..Len(beam_writers) :
     SplitOf(info.splits, beam_writers[i].name).shard_lengths = <<>>}

\* Lines 1134-1140: the lengths of the shards of one writer are retrieved and
\* put in the split of self.info.splits.
BeamFinalize ==
  /\ pc = "beam_finalize"
  /\ NotFinalized # {}
  /\ LET w == beam_writers[CHOOSE i \in NotFinalized : \A j \in NotFinalized : i <= j]
     IN info' = [info EXCEPT !.splits =
                   [k \in 1..Len(info.splits) |->
                      IF info.splits[k].name = w.name
                      THEN SplitInfo(w.name, w.written)
                      ELSE info.splits[k]]]
  /\ UNCHANGED <<fs, self_data_dir, disk_info, pc, call, staging, split_dict,
                 raised, outcome, hist, beam_writers>>
  /\ UNCHANGED beam_vars

\* A last update applied as soon as one writer has been finalized.
BeamUpdateSplits_after_first ==
  /\ pc = "beam_finalize"
  /\ NotFinalized # 1..Len(beam_writers) \/ beam_writers = <<>>
  /\ pc' = "stats"
  /\ hist' = [hist EXCEPT !.updates = @ + 1]
  /\ UNCHANGED <<fs, self_data_dir, info, disk_info, call, staging, split_dict,
                 raised, outcome, beam_writers>>
  /\ UNCHANGED beam_vars

\* Lines 1141-1142: self.info.update_splits_if_different(self.info.splits),
\* once every writer has been finalized.
BeamUpdateSplits ==
  /\ pc = "beam_finalize"
  /\ NotFinalized = {}
  /\ pc' = "stats"
  /\ hist' = [hist EXCEPT !.updates = @ + 1]
  /\ UNCHANGED <<fs, self_data_dir, info, disk_info, call, staging, split_dict,
                 raised, outcome, beam_writers>>
  /\ UNCHANGED beam_vars

\* Lines 385-407: the statistics, computed or skipped.
ComputeStats ==
  /\ pc = "stats"
  /\ pc' = "write_info"
  /\ UNCHANGED <<fs, self_data_dir, info, disk_info, call, staging, split_dict,
                 raised, outcome, hist>>
  /\ UNCHANGED call_vars

\* Line 409: self.info.write_to_directory(self._data_dir)
WriteInfo ==
  /\ pc = "write_info"
  /\ fs' = WriteFiles(fs, self_data_dir, {InfoFile})
  /\ disk_info' = PutInfo(disk_info, self_data_dir, info.splits)
  /\ hist' = [hist EXCEPT !.wrote = @ \cup {InfoFile}]
  /\ pc' = "unwind"
  /\ UNCHANGED <<self_data_dir, info, call, staging, split_dict, raised, outcome>>
  /\ UNCHANGED call_vars

\* What else may raise inside the staging area: the GCS copy or the download
\* (line 373 or 942), the statistics (line 406), the metadata write (line
\* 409), the Beam pipeline (line 1124) or a Beam writer (line 1136).
BodyRaises ==
  /\ pc \in {"body", "stats", "write_info", "pipeline", "beam_finalize"}
  /\ raised' = [type |-> "IOError",
                kind |-> IF pc = "body"
                         THEN (IF UsesGcs THEN "gcs_copy" ELSE "download")
                         ELSE pc,
                msg |-> <<>>]
  /\ hist' = [hist EXCEPT !.body_error = raised']
  /\ pc' = "unwind"
  /\ UNCHANGED <<fs, self_data_dir, info, disk_info, call, staging, split_dict,
                 outcome>>
  /\ UNCHANGED call_vars

\* utils.temporary_assignment ends: self._data_dir gets its value back.
RestoreDataDir ==
  /\ pc = "unwind"
  /\ self_data_dir' = staging.saved
  /\ pc' = "closing"
  /\ UNCHANGED <<fs, info, disk_info, call, staging, split_dict, raised, outcome, hist>>
  /\ UNCHANGED call_vars

\* utils.incomplete_dir ends: the staging directory is renamed to the final
\* one when the body returned, and removed with all it holds when the body
\* raised; a rename that finds the final directory made by another build
\* fails and leaves the staging directory behind. The call ends (line 410).
CloseStaging ==
  /\ pc = "closing"
  /\ IF raised = NoError /\ ~Exists(fs, staging.dirname)
     THEN /\ fs' = Rename(fs, staging.tmp_dir, staging.dirname)
          /\ disk_info' = IF staging.tmp_dir \in DOMAIN disk_info
                          THEN Rename(disk_info, staging.tmp_dir, staging.dirname)
                          ELSE disk_info
          /\ outcome' = [type |-> "none", kind |-> "returned", msg |-> <<>>]
     ELSE IF raised # NoError
     THEN /\ fs' = RmTree(fs, staging.tmp_dir)
          /\ disk_info' = RmTree(disk_info, staging.tmp_dir)
          /\ outcome' = raised
     ELSE /\ fs' = fs
          /\ disk_info' = disk_info
          /\ outcome' = [type |-> "OpError", kind |-> "rename", msg |-> <<>>]
  /\ raised' = NoError
  /\ staging' = NoStaging
  /\ split_dict' = <<>>
  /\ pc' = "idle"
  /\ UNCHANGED <<self_data_dir, info, call, hist>>
  /\ UNCHANGED call_vars

\* The calls of as_dataset made on the builder: every split or "train", the
\* whole split as one batch or no batch, without read_config (line 514).
AsDatasetArgs ==
  {[given |-> TRUE, split |-> s, batch_size |-> b, shuffle_files |-> sh,
    as_supervised |-> sup, supervised_keys |-> keys,
    read_config |-> DefaultReadConfig] :
     s \in {"None", "train"}, b \in {None, Some(-1)}, sh \in BOOLEAN,
     sup \in BOOLEAN, keys \in BOOLEAN}

\* Lines 501-526: as_dataset is called while no build runs. A read changes
\* nothing of the builder and of the filesystem: the model follows a builder
\* up to its first read.
AsDataset ==
  /\ pc = "idle"
  /\ \E a \in AsDatasetArgs :
       /\ a.as_supervised \/ a.supervised_keys
       /\ as_dataset_args' = a
       /\ datasets' = as_dataset(fs, self_data_dir, located.root, info.splits, a)
  /\ pc' = "read"
  /\ UNCHANGED <<fs, self_data_dir, info, disk_info, call, staging, split_dict,
                 raised, outcome, hist, beam_writers, peer>>
  /\ UNCHANGED built_vars

Next ==
  \/ AsDataset
  \/ Preflight
  \/ OpenStaging
  \/ DownloadGcs
  \/ BeamNoRunner
  \/ BeginSplits
  \/ RejectAllSplit
  \/ PrepareSplit
  \/ PrepareSplitRaises
  \/ BeamPrepareSplit
  \/ UpdateSplits
  \/ BeamRunPipeline
  \/ BeamFinalize
  \/ BeamUpdateSplits
  \/ ComputeStats
  \/ WriteInfo
  \/ BodyRaises
  \/ RestoreDataDir
  \/ CloseStaging

Spec == Init /\ [][Next]_vars

(***************************************************************************)
(* Two processes preparing the same version                                *)
(***************************************************************************)
\* What a step of the other process leaves alone: the builder of this one.
own_vars == <<self_data_dir, info, pc, call, staging, split_dict, raised,
              outcome, hist, beam_writers, as_dataset_args, datasets>>

\* The other process runs the same download_and_prepare, with the default
\* download mode, on a builder of its own for the same version and the same
\* root: it shares the filesystem and nothing else.
InitRace ==
  /\ versions = BuilderVersions
  /\ requested = NoneVal
  /\ picked = pick_version(versions, requested)
  /\ builder_config = NoneVal
  /\ given_data_dir = NoneVal
  /\ DATA_DIR = <<"~", "/", "tensorflow_datasets">>
  /\ data_dirs = list_data_dirs(DATA_DIR, 0)
  /\ fs = EmptyFs
  /\ disk_info = EmptyFs
  /\ located = build_data_dir(fs, given_data_dir, DATA_DIR, data_dirs,
                              builder_config, picked.version)
  /\ self_data_dir = located.data_dir
  /\ info = NoInfo
  /\ split_generators \in {<<"train">>, <<"train", "test">>}
  /\ py2 = FALSE
  /\ pc = "idle"
  /\ call = NoCall
  /\ staging = NoStaging
  /\ split_dict = <<>>
  /\ raised = NoError
  /\ outcome = NoError
  /\ hist = NoHist
  /\ builder_class = "GeneratorBasedBuilder"
  /\ beam_writers = <<>>
  /\ peer = [NoPeer EXCEPT !.pc = "start"]
  /\ as_dataset_args = NoArgs
  /\ datasets = NoDatasets

\* download_and_prepare called with its default arguments (line 285), the
\* disk having room and the dataset not being on GCS.
DefaultPreflight == StartCall({REUSE_DATASET_IF_EXISTS}, {FALSE}, {TRUE})

\* Lines 287-291 and 341-346 in the other process: the data that exists is
\* reused, and the build goes on when there is none.
PeerPreflight ==
  /\ peer.pc = "start"
  /\ peer' = IF Exists(fs, FinalDir)
             THEN [peer EXCEPT !.pc = "done",
                               !.outcome = [type |-> "none", kind |-> "reused",
                                            msg |-> <<>>]]
             ELSE [peer EXCEPT !.pc = "open"]
  /\ UNCHANGED <<fs, disk_info>>
  /\ UNCHANGED own_vars
  /\ UNCHANGED built_vars

\* Lines 366-369 in the other process: a staging directory of its own.
PeerOpenStaging ==
  /\ peer.pc = "open"
  /\ \E tag \in Tags :
       LET tmp == incomplete_path(FinalDir, tag)
       IN /\ ~Exists(fs, tmp)
          /\ fs' = MakeDirs(fs, tmp)
          /\ peer' = [peer EXCEPT !.pc = "body", !.tmp_dir = tmp]
  /\ UNCHANGED disk_info
  /\ UNCHANGED own_vars
  /\ UNCHANGED built_vars

\* Lines 376-383 in the other process: its splits are generated and written.
PeerPrepareSplits ==
  /\ peer.pc = "body"
  /\ \E shard_lengths \in ShardLengthChoices :
       LET files == UNION {ShardFiles(split_generators[i], shard_lengths)
                             : i \in 1..Len(split_generators)}
       IN /\ fs' = WriteFiles(fs, peer.tmp_dir, files)
          /\ peer' = [peer EXCEPT !.pc = "write_info", !.wrote = files]
  /\ UNCHANGED disk_info
  /\ UNCHANGED own_vars
  /\ UNCHANGED built_vars

\* Line 409 in the other process: its metadata is written.
PeerWriteInfo ==
  /\ peer.pc = "write_info"
  /\ fs' = WriteFiles(fs, peer.tmp_dir, {InfoFile})
  /\ disk_info' = PutInfo(disk_info, peer.tmp_dir,
                          [i \in 1..Len(split_generators) |->
                             SplitInfo(split_generators[i], <<1>>)])
  /\ peer' = [peer EXCEPT !.pc = "closing", !.wrote = @ \cup {InfoFile}]
  /\ UNCHANGED own_vars
  /\ UNCHANGED built_vars

\* The body of the other process raises.
PeerBodyRaises ==
  /\ peer.pc \in {"body", "write_info"}
  /\ peer' = [peer EXCEPT !.pc = "closing",
                          !.outcome = [type |-> "IOError", kind |-> "body",
                                       msg |-> <<>>]]
  /\ UNCHANGED <<fs, disk_info>>
  /\ UNCHANGED own_vars
  /\ UNCHANGED built_vars

\* utils.incomplete_dir ends in the other process, as CloseStaging does.
PeerCloseStaging ==
  /\ peer.pc = "closing"
  /\ IF peer.outcome = NoError /\ ~Exists(fs, FinalDir)
     THEN /\ fs' = Rename(fs, peer.tmp_dir, FinalDir)
          /\ disk_info' = Rename(disk_info, peer.tmp_dir, FinalDir)
          /\ peer' = [peer EXCEPT !.pc = "done",
                                  !.outcome = [type |-> "none", kind |-> "returned",
                                               msg |-> <<>>]]
     ELSE IF peer.outcome # NoError
     THEN /\ fs' = RmTree(fs, peer.tmp_dir)
          /\ disk_info' = RmTree(disk_info, peer.tmp_dir)
          /\ peer' = [peer EXCEPT !.pc = "done"]
     ELSE /\ fs' = fs
          /\ disk_info' = disk_info
          /\ peer' = [peer EXCEPT !.pc = "done",
                                  !.outcome = [type |-> "OpError", kind |-> "rename",
                                               msg |-> <<>>]]
  /\ UNCHANGED own_vars
  /\ UNCHANGED built_vars

NextRace ==
  \/ DefaultPreflight
  \/ OpenStaging
  \/ BeginSplits
  \/ PrepareSplit
  \/ PrepareSplitRaises
  \/ UpdateSplits
  \/ ComputeStats
  \/ WriteInfo
  \/ BodyRaises
  \/ RestoreDataDir
  \/ CloseStaging
  \/ PeerPreflight
  \/ PeerOpenStaging
  \/ PeerPrepareSplits
  \/ PeerWriteInfo
  \/ PeerBodyRaises
  \/ PeerCloseStaging

SpecRace == InitRace /\ [][NextRace]_vars

(***************************************************************************)
(* Inputs of a read                                                        *)
(***************************************************************************)
TriState == {"None", "True", "False"}

\* tfds.ReadConfig
ReadConfigs ==
  [try_autocache : BOOLEAN,
   shuffle_reshuffle_each_iteration : TriState,
   experimental_deterministic : TriState,
   shuffle_seed : {None, Some(0)}]

BatchSizes == {None, Some(-1)} \cup {Some(n) : n \in 0..MaxBatch}

\* The arguments of _build_single_dataset for the split "train", and
\* whether the dataset declares supervised keys.
ReadArgs ==
  {[given |-> TRUE, split |-> "train", batch_size |-> b, shuffle_files |-> s,
    as_supervised |-> sup, supervised_keys |-> keys, read_config |-> rc] :
     b \in BatchSizes, s \in BOOLEAN, sup \in BOOLEAN, keys \in BOOLEAN,
     rc \in ReadConfigs}

\* Total sizes around the threshold of auto-caching
DatasetSizes == {0, 10 * MiB, 250 * MiB, 251 * MiB}

\* Catalogs of a built version: a "train" split and possibly a "test" split;
\* a split without shard lengths has an unknown number of examples.
ReadCatalogs ==
  {<<[name |-> "train", shard_lengths |-> q, num_bytes |-> n]>> \o t :
     q \in ShardLengthChoices \cup {<<>>}, n \in DatasetSizes,
     t \in {<<>>, <<SplitInfo("test", <<>>)>>, <<SplitInfo("test", <<1>>)>>}}

InitRead ==
  /\ versions = <<LocateVersion>>
  /\ requested = NoneVal
  /\ picked = pick_version(versions, requested)
  /\ builder_config = NoneVal
  /\ given_data_dir = NoneVal
  /\ DATA_DIR = <<"data">>
  /\ data_dirs = list_data_dirs(DATA_DIR, 0)
  /\ LET dir == PathJoin(DATA_DIR, relative_data_dir(builder_config,
                                                     picked.version, TRUE))
     IN fs = WriteFiles(FsWith({dir}), dir, {InfoFile})
  /\ located = build_data_dir(fs, given_data_dir, DATA_DIR, data_dirs,
                              builder_config, picked.version)
  /\ self_data_dir = located.data_dir
  /\ info \in [splits : ReadCatalogs]
  /\ disk_info = PutInfo(EmptyFs, self_data_dir, info.splits)
  /\ split_generators = <<>>
  /\ py2 = FALSE
  /\ pc = "idle"
  /\ call = NoCall
  /\ staging = NoStaging
  /\ split_dict = <<>>
  /\ raised = NoError
  /\ outcome = NoError
  /\ hist = NoHist
  /\ builder_class = "GeneratorBasedBuilder"
  /\ beam_writers = <<>>
  /\ peer = NoPeer
  /\ as_dataset_args \in ReadArgs
  /\ datasets = NoDatasets

\* Lines 517-525: as_dataset builds the dataset of one split.
BuildSingleDataset ==
  /\ datasets = NoDatasets
  /\ as_dataset_args.given
  /\ datasets' = build_single_dataset(info.splits,
                                      as_dataset_args.supervised_keys,
                                      as_dataset_args.split, as_dataset_args)
  /\ UNCHANGED <<fs, self_data_dir, info, disk_info, pc, call, staging,
                 split_dict, raised, outcome, hist, as_dataset_args, peer,
                 beam_writers>>
  /\ UNCHANGED built_vars

NextRead == BuildSingleDataset

SpecRead == InitRead /\ [][NextRead]_vars

(***************************************************************************)
(* Version resolution: claims                                              *)
(***************************************************************************)
\* The wildcard rule, on the candidate at position i.
CandidateMatches(i) == VersionMatch(versions[i], requested)

\* C9: over [canonical] + supported, "experimental_latest" resolves to the
\* maximum candidate by (major, minor, patch); an unset request resolves to
\* the canonical version; any other request resolves to the first candidate
\* in listed order that matches it under the wildcard rule, whatever the
\* later candidates are.
C9_PickVersionFirstMatch ==
  picked.status # "none" =>
    /\ requested = LatestRequest =>
         /\ picked.status = "ok"
         /\ \E i \in 1..Len(versions) : versions[i] = picked.version
         /\ \A i \in 1..Len(versions) : ~VersionLess(picked.version, versions[i])
    /\ requested = NoneVal =>
         picked.status = "ok" /\ picked.version = versions[1]
    /\ (requested \notin {LatestRequest, NoneVal}
          /\ \E i \in 1..Len(versions) : CandidateMatches(i)) =>
         /\ picked.status = "ok"
         /\ \E i \in 1..Len(versions) :
              /\ CandidateMatches(i)
              /\ \A j \in 1..(i - 1) : ~CandidateMatches(j)
              /\ picked.version = versions[i]

\* C9 witness: a wildcard request resolved to the canonical version although
\* a later candidate matches too and is higher.
C9_Witness ==
  /\ picked.status = "ok"
  /\ requested \notin {LatestRequest, NoneVal}
  /\ Len(versions) >= 2
  /\ picked.version = versions[1]
  /\ CandidateMatches(2)
  /\ VersionLess(versions[1], versions[2])

\* The text of candidate i as the error message must show it.
CandidateText(i) ==
  <<Digits[versions[i].major + 1], ".", Digits[versions[i].minor + 1], ".",
    Digits[versions[i].patch + 1]>>

\* C10: a request other than "experimental_latest" that matches no candidate
\* fails, and the error lists exactly the candidates, in candidate order.
C10_PickVersionErrorListsCandidates ==
  picked.status # "none" =>
    /\ picked.status = "AssertionError" <=>
         /\ requested \notin {LatestRequest, NoneVal}
         /\ \A i \in 1..Len(versions) : ~CandidateMatches(i)
    /\ picked.status = "AssertionError" =>
         /\ Len(picked.msg) = 7 * Len(versions) - 2
         /\ \A i \in 1..Len(versions) :
              SubSeq(picked.msg, 7 * i - 6, 7 * i - 2) = CandidateText(i)
         /\ \A i \in 1..(Len(versions) - 1) :
              SubSeq(picked.msg, 7 * i - 1, 7 * i) = <<",", " ">>

\* C10 witness: a failed resolution over two or more candidates.
C10_Witness ==
  /\ picked.status = "AssertionError"
  /\ Len(versions) >= 2
  /\ versions[1] # versions[2]

(***************************************************************************)
(* Location resolution: claims                                             *)
(***************************************************************************)
\* The roots the resolution searches: the explicit root alone, or every
\* candidate root.
SearchedRoots ==
  IF given_data_dir \notin {NoneVal, <<>>}
  THEN <<expanduser(given_data_dir)>>
  ELSE data_dirs

\* name[/config]
BuilderPath ==
  IF builder_config = NoneVal THEN DatasetName
  ELSE DatasetName \o <<"/">> \o builder_config

\* name[/config]/version
VersionPath ==
  BuilderPath \o <<"/", Digits[picked.version.major + 1], ".",
                  Digits[picked.version.minor + 1], ".",
                  Digits[picked.version.patch + 1]>>

\* The searched roots with a directory for the exact requested version.
RootsHoldingVersion ==
  {SearchedRoots[i] : i \in {j \in 1..Len(SearchedRoots) :
     (SearchedRoots[j] \o <<"/">> \o VersionPath) \in DOMAIN fs}}

\* A searched root holds a directory of the dataset named as a version.
SomeVersionDirExists ==
  \E i \in 1..Len(SearchedRoots), n \in DirNames :
    /\ IsVersionStr(n)
    /\ (SearchedRoots[i] \o <<"/">> \o BuilderPath \o <<"/">> \o n) \in DOMAIN fs

\* C6: without an explicit root, two or more candidate roots holding the exact
\* requested version make the resolution fail, naming every such root; no
\* root is returned.
C6_AmbiguousLocationFails ==
  (located.status # "none" /\ given_data_dir = NoneVal
     /\ Cardinality(RootsHoldingVersion) >= 2) =>
    /\ located.status = "ValueError"
    /\ located.root = <<>> /\ located.data_dir = <<>>
    /\ {located.msg[i].root : i \in 1..Len(located.msg)} = RootsHoldingVersion
    /\ \A i \in 1..Len(located.msg) :
         located.msg[i].dir = located.msg[i].root \o <<"/">> \o VersionPath

\* C6 witness: an ambiguity over two roots.
C6_Witness ==
  /\ located.status = "ValueError"
  /\ given_data_dir = NoneVal
  /\ Cardinality(RootsHoldingVersion) = 2

\* C7 as stated: with exactly one root holding the version, that root and its
\* versioned path are returned, and no other root was read.
C7_Original_NoOtherRootConsulted ==
  (located.status # "none" /\ Cardinality(RootsHoldingVersion) = 1) =>
    /\ located.status = "ok"
    /\ located.root \in RootsHoldingVersion
    /\ located.data_dir = located.root \o <<"/">> \o VersionPath
    /\ \A i \in 1..Len(located.listed) : located.listed[i] = located.root

\* C7, amended: with exactly one searched root holding the version, that root
\* and its versioned path are returned, whatever its position and whether or
\* not it is the default root; every searched root has been read, in order
\* (the explicit root alone when one is given).
C7_SingleLocationReturned ==
  (located.status # "none" /\ Cardinality(RootsHoldingVersion) = 1) =>
    /\ located.status = "ok"
    /\ located.root \in RootsHoldingVersion
    /\ located.data_dir = located.root \o <<"/">> \o VersionPath
    /\ located.listed = SearchedRoots

\* C7 witness: the only root holding the version is the second candidate, not
\* the default one.
C7_Witness ==
  /\ located.status = "ok"
  /\ given_data_dir = NoneVal
  /\ Len(data_dirs) >= 2
  /\ RootsHoldingVersion = {data_dirs[2]}
  /\ located.root = data_dirs[2]
  /\ located.root # data_dirs[1]

\* The default root: the explicit root when given, else the first default,
\* with a leading "~" expanded.
DefaultRoot ==
  LET r == IF given_data_dir \notin {NoneVal, <<>>} THEN given_data_dir ELSE DATA_DIR
  IN IF r[1] = "~" THEN <<"home">> \o Tail(r) ELSE r

\* C8: when no searched root holds the requested version, the default root
\* joined with name[/config]/version is returned, with a warning exactly when
\* some searched root holds another validly named version directory; the
\* path does not depend on the warning.
C8_DefaultLocationWithWarning ==
  (located.status # "none" /\ RootsHoldingVersion = {}) =>
    /\ located.status = "ok"
    /\ located.root = DefaultRoot
    /\ given_data_dir = NoneVal => located.root = data_dirs[1]
    /\ located.data_dir = DefaultRoot \o <<"/">> \o VersionPath
    /\ (located.warning # {}) <=> SomeVersionDirExists

\* C8 witness: a warning about a version held by a root other than the
\* default one.
C8_Witness ==
  /\ located.status = "ok"
  /\ RootsHoldingVersion = {}
  /\ located.warning # {}
  /\ \A d \in located.warning :
       SubSeq(d, 1, Len(DefaultRoot)) # DefaultRoot

(***************************************************************************)
(* download_and_prepare: claims                                            *)
(***************************************************************************)
\* The last call has ended and its caller has its result.
CallEnded == pc \in {"idle", "read"} /\ outcome.kind # "none"

\* A call of download_and_prepare is running.
Running == pc \notin {"idle", "read"}

\* The final version directory existed when the last call started.
ExistedAtCall == FinalDir \in DOMAIN hist.fs0

\* Staging directories beside the final directory: <final>.incomplete<tag>
TempSiblings(f) ==
  {d \in DOMAIN f :
     /\ Len(d) > Len(FinalDir) + 1
     /\ SubSeq(d, 1, Len(FinalDir)) = FinalDir
     /\ d[Len(FinalDir) + 1] = ".incomplete"}

SameTriple(a, b) == a.major = b.major /\ a.minor = b.minor /\ a.patch = b.patch

\* The resolved version is the canonical one or the maximum of the candidates.
Installable ==
  \/ SameTriple(picked.version, versions[1])
  \/ \A i \in 1..Len(versions) : ~VersionLess(picked.version, versions[i])

PreflightErrorKinds == {"py2", "marker", "not_installable", "exists", "no_space"}

\* C1: when something run inside the staging area raises, then once the
\* error has reached the caller the final version directory does not exist,
\* no staging directory remains beside it, and the error is the one the body
\* raised.
C1_FailedBuildLeavesNothing ==
  (~Running /\ hist.body_error # NoError) =>
    /\ FinalDir \notin DOMAIN fs
    /\ TempSiblings(fs) = {}
    /\ outcome = hist.body_error

\* C1 witness: a generator raised after an earlier split was written and a
\* partial file left, and the call has ended.
C1_Witness ==
  /\ pc = "idle"
  /\ hist.body_error.kind = "generator"
  /\ hist.generated = 2
  /\ hist.wrote # {}
  /\ outcome = hist.body_error

\* C2: in a build started with the final directory absent, the final
\* directory appears only by the rename of the staging directory; it then
\* holds exactly what the body wrote, with the shard files of every split and
\* the metadata of the catalog.
C2_FinalAppearsByRename ==
  [][(FinalDir \notin DOMAIN fs /\ FinalDir \in DOMAIN fs') =>
       /\ pc = "closing" /\ raised = NoError
       /\ staging.dirname = FinalDir
       /\ staging.tmp_dir \in DOMAIN fs /\ staging.tmp_dir \notin DOMAIN fs'
       /\ fs'[FinalDir] = fs[staging.tmp_dir]
       /\ fs'[FinalDir] = hist.wrote
       /\ InfoFile \in fs'[FinalDir]
       /\ disk_info'[FinalDir] = info.splits
       /\ ~UsesGcs =>
            /\ Len(info.splits) = Len(split_generators)
            /\ \A i \in 1..Len(split_generators) :
                 /\ info.splits[i].name = split_generators[i]
                 /\ \A k \in 1..Len(info.splits[i].shard_lengths) :
                      (<<"d", "-", split_generators[i], ".tfrecord-", Digits[k],
                         "-of-", Digits[Len(info.splits[i].shard_lengths) + 1]>>)
                        \in fs'[FinalDir]]_vars

\* C2 witness: a build of two splits has been promoted to the final
\* directory, which was absent when the call started.
C2_Witness ==
  /\ CallEnded /\ outcome.kind = "returned"
  /\ ~ExistedAtCall
  /\ FinalDir \in DOMAIN fs
  /\ Len(info.splits) = 2
  /\ InfoFile \in fs[FinalDir]

\* C3 as stated: a call made while the final directory exists fails with the
\* already-exists error and leaves the directory unchanged, in every
\* download mode (taken under Python 3 and for a version that passes the
\* checks that come first).
C3_Original_ExistingVersionRejected ==
  (CallEnded /\ ExistedAtCall /\ ~py2 /\ Installable
     /\ ~picked.version.tfds_version_to_prepare) =>
    /\ outcome.type = "ValueError" /\ outcome.kind = "exists"
    /\ fs = hist.fs0

\* C3, amended: a call made while the final directory exists leaves the
\* filesystem unchanged; with REUSE_DATASET_IF_EXISTS it returns normally,
\* with any other download mode it fails, and the error is the already-exists
\* ValueError naming the directory unless an earlier check fails (Python 2,
\* the older-code marker, a version that is not installable).
C3_ExistingVersionNeverOverwritten ==
  (CallEnded /\ ExistedAtCall) =>
    /\ fs = hist.fs0
    /\ ~hist.staged /\ hist.generated = 0
    /\ (call.download_mode = REUSE_DATASET_IF_EXISTS) <=> (outcome.kind = "reused")
    /\ call.download_mode # REUSE_DATASET_IF_EXISTS =>
         /\ outcome.type # "none"
         /\ outcome.kind \in {"py2", "marker", "not_installable", "exists"}
         /\ (~py2 /\ ~picked.version.tfds_version_to_prepare /\ Installable) =>
              /\ outcome.type = "ValueError" /\ outcome.kind = "exists"
              /\ outcome.msg = FinalDir

\* C3 witness: FORCE_REDOWNLOAD over an existing version is rejected.
C3_Witness ==
  /\ CallEnded /\ ExistedAtCall
  /\ call.download_mode = FORCE_REDOWNLOAD
  /\ outcome.kind = "exists"
  /\ fs[FinalDir] # {}

\* The installable versions, as the error of line 334 lists them.
InstallableListed ==
  LET c == <<Digits[versions[1].major + 1], ".", Digits[versions[1].minor + 1],
             ".", Digits[versions[1].patch + 1]>>
      top == CHOOSE v \in {versions[i] : i \in 1..Len(versions)} :
               \A i \in 1..Len(versions) : ~VersionLess(v, versions[i])
      m == <<Digits[top.major + 1], ".", Digits[top.minor + 1], ".",
             Digits[top.patch + 1]>>
  IN IF c = m THEN <<c>>
     ELSE IF VersionLess(versions[1], top) THEN <<c, m>> ELSE <<m, c>>

\* The candidates without the older-code marker, by position.
Unmarked == {i \in 1..Len(versions) : ~versions[i].tfds_version_to_prepare}

\* C4 as stated: for a resolved version that is neither the canonical one
\* nor the maximum, the call (under Python 3) fails before any directory is
\* created, with an error listing the installable versions.
C4_Original_NotInstallableFails ==
  (CallEnded /\ ~Installable /\ ~py2) =>
    /\ outcome.type = "ValueError" /\ outcome.kind = "not_installable"
    /\ outcome.msg = InstallableListed
    /\ ~hist.staged /\ fs = hist.fs0

\* C4, amended: data is generated only for a resolved version that is the
\* canonical one or the maximum of the candidates. For any other resolved
\* version no directory is created and no generator runs; the call returns at
\* once when the final directory exists and the mode is
\* REUSE_DATASET_IF_EXISTS, and fails otherwise: under Python 2 with
\* NotImplementedError, for a version carrying the older-code marker with the
\* AssertionError listing the versions without marker, and else with the
\* ValueError listing the installable versions.
C4_OnlyInstallableGenerated ==
  /\ (Running \/ hist.staged \/ hist.generated > 0) => Installable
  /\ (CallEnded /\ ~Installable) =>
       /\ ~hist.staged /\ hist.generated = 0 /\ fs = hist.fs0
       /\ IF ExistedAtCall /\ call.download_mode = REUSE_DATASET_IF_EXISTS
          THEN outcome.kind = "reused"
          ELSE IF py2
          THEN outcome.type = "NotImplementedError"
          ELSE IF picked.version.tfds_version_to_prepare
          THEN /\ outcome.type = "AssertionError" /\ outcome.kind = "marker"
               /\ Len(outcome.msg) = 7 * Cardinality(Unmarked) - 2
               /\ \A k \in 1..Cardinality(Unmarked) :
                    SubSeq(outcome.msg, 7 * k - 6, 7 * k - 2)
                      = CandidateText(CHOOSE i \in Unmarked :
                                        Cardinality({j \in Unmarked : j < i}) = k - 1)
          ELSE /\ outcome.type = "ValueError" /\ outcome.kind = "not_installable"
               /\ outcome.msg = InstallableListed

\* C4 witness: the not-installable error, listing the canonical version and
\* the maximum.
C4_Witness ==
  /\ CallEnded /\ ~Installable
  /\ outcome.kind = "not_installable"
  /\ Len(outcome.msg) = 2

\* C5: every pre-flight check comes before the staging directory: a call that
\* fails a check has created no directory, changed nothing in the filesystem
\* and invoked no generator, and its error is the check's; a call that has
\* opened its staging directory has passed every check.
C5_PreflightBeforeStaging ==
  /\ (CallEnded /\ outcome.kind \in PreflightErrorKinds) =>
       /\ ~hist.staged /\ hist.generated = 0 /\ hist.wrote = {}
       /\ fs = hist.fs0
       /\ staging = NoStaging /\ self_data_dir = FinalDir
       /\ outcome.kind = "marker" => picked.version.tfds_version_to_prepare
       /\ outcome.kind = "not_installable" => ~Installable
       /\ outcome.kind = "exists" => ExistedAtCall
       /\ outcome.kind = "no_space" => ~call.has_sufficient_disk_space
  /\ (hist.staged \/ Running) =>
       /\ ~py2
       /\ ~picked.version.tfds_version_to_prepare
       /\ Installable
       /\ ~ExistedAtCall
       /\ call.has_sufficient_disk_space

\* C5 witness: a call failed on the disk space, everything else being fine.
C5_Witness ==
  /\ CallEnded /\ outcome.kind = "no_space"
  /\ Installable /\ ~ExistedAtCall

(***************************************************************************)
(* Reading: claims                                                         *)
(***************************************************************************)
\* The last read of one split returned a dataset.
ReadDone == as_dataset_args.given /\ datasets.status = "ok"

HasStage(ds, op) == \E i \in 1..Len(ds) : ds[i].op = op

StageArg(ds, op) == ds[CHOOSE i \in 1..Len(ds) : ds[i].op = op].arg

\* The bytes of the catalog, split by split.
CatalogBytes ==
  info.splits[1].num_bytes
    + (IF Len(info.splits) > 1 THEN info.splits[2].num_bytes ELSE 0)

\* The shard lengths of the split that was read.
ReadShardLengths ==
  IF info.splits[1].name = as_dataset_args.split
  THEN info.splits[1].shard_lengths
  ELSE info.splits[2].shard_lengths

\* The examples of the catalog, split by split.
CatalogExamples ==
  SumSeq(info.splits[1].shard_lengths)
    + (IF Len(info.splits) > 1 THEN SumSeq(info.splits[2].shard_lengths) ELSE 0)

\* C11: the dataset of a split is cached if and only if auto-caching is not
\* disabled, the size of the dataset is known (not zero) and at most 250 MiB,
\* and it is not the case that the files are shuffled, reshuffling at each
\* iteration is not False and the split has more than one shard.
C11_ShouldCacheDecision ==
  ReadDone =>
    (HasStage(datasets.ds, "cache") <=>
       /\ as_dataset_args.read_config.try_autocache
       /\ CatalogBytes # 0
       /\ CatalogBytes <= 262144000
       /\ ~(/\ as_dataset_args.shuffle_files
            /\ as_dataset_args.read_config.shuffle_reshuffle_each_iteration
                 \in {"None", "True"}
            /\ Len(ReadShardLengths) > 1))

\* C11 witness: a dataset of exactly 250 MiB, read shuffled from one shard,
\* is cached.
C11_Witness ==
  /\ ReadDone
  /\ CatalogBytes = 262144000
  /\ as_dataset_args.shuffle_files
  /\ Len(ReadShardLengths) = 1
  /\ HasStage(datasets.ds, "cache")

\* C16 as stated: the batch size -1 stands for the number of examples of the
\* split that is read, or for sys.maxsize when that number is zero.
C16_Original_BatchIsSplitCount ==
  (ReadDone /\ as_dataset_args.batch_size = Some(-1)) =>
    /\ HasStage(datasets.ds, "padded_batch")
    /\ StageArg(datasets.ds, "padded_batch") =
         (IF SumSeq(ReadShardLengths) # 0 THEN SumSeq(ReadShardLengths)
          ELSE 2147483647)

\* C16, amended: the batch size -1 stands for the number of examples of all
\* the splits of the dataset together, or for sys.maxsize when that number is
\* zero, and the single batch is returned as tensors; any other batch size
\* that is not zero is used as given; without a batch size (None or 0) there
\* is no batching stage.
C16_FullDatasetBatchSize ==
  ReadDone =>
    LET b == as_dataset_args.batch_size
    IN /\ (b = Some(-1)) =>
            /\ HasStage(datasets.ds, "padded_batch")
            /\ StageArg(datasets.ds, "padded_batch") =
                 (IF CatalogExamples # 0 THEN CatalogExamples ELSE 2147483647)
            /\ StageArg(datasets.ds, "padded_batch") >= SumSeq(ReadShardLengths)
       /\ datasets.single_element <=> (b = Some(-1))
       /\ (~b.is_none /\ b.value \notin {-1, 0}) =>
            /\ HasStage(datasets.ds, "padded_batch")
            /\ StageArg(datasets.ds, "padded_batch") = b.value
       /\ (b.is_none \/ b.value = 0) => ~HasStage(datasets.ds, "padded_batch")

\* C16 witness: the whole "train" split is asked of a dataset that has
\* examples in another split too, and the batch is larger than the split.
C16_Witness ==
  /\ ReadDone /\ as_dataset_args.batch_size = Some(-1)
  /\ SumSeq(ReadShardLengths) > 0
  /\ HasStage(datasets.ds, "padded_batch")
  /\ StageArg(datasets.ds, "padded_batch") > SumSeq(ReadShardLengths)
  /\ StageArg(datasets.ds, "padded_batch") < 2147483647

\* C17: the dataset is marked as allowed not to be deterministic if and only
\* if the files are shuffled, no shuffle seed was given and no determinism
\* flag was given; otherwise no option is set on it.
C17_NonDeterminismPolicy ==
  ReadDone =>
    (HasStage(datasets.ds, "with_options_not_deterministic") <=>
       /\ as_dataset_args.shuffle_files
       /\ as_dataset_args.read_config.shuffle_seed.is_none
       /\ as_dataset_args.read_config.experimental_deterministic
            \notin {"True", "False"})

\* C17 witness: shuffled files with the seed 0 given: the dataset is not
\* marked.
C17_Witness ==
  /\ ReadDone
  /\ as_dataset_args.shuffle_files
  /\ as_dataset_args.read_config.shuffle_seed = Some(0)
  /\ as_dataset_args.read_config.experimental_deterministic = "None"
  /\ ~HasStage(datasets.ds, "with_options_not_deterministic")

(***************************************************************************)
(* Location resolution and incomplete directories: claims                  *)
(***************************************************************************)
\* The directories of the dataset, under the searched roots, that are named
\* as a version.
VersionNamedDirs ==
  {SearchedRoots[i] \o <<"/">> \o BuilderPath \o <<"/">> \o n :
     i \in 1..Len(SearchedRoots),
     n \in {<<"1", ".", "0", ".", "0">>, <<"0", ".", "0", ".", "1">>}}
    \cap DOMAIN fs

\* The staging directories of the dataset under the searched roots.
StagingDirs ==
  {SearchedRoots[i] \o <<"/">> \o VersionPath \o <<".incomplete", "A">> :
     i \in 1..Len(SearchedRoots)}
    \cap DOMAIN fs

\* The directory holds its metadata file and the shard it names.
IsComplete(d) ==
  {<<"dataset_info.json">>, <<"d", "-", "train", ".tfrecord-", "0", "-of-", "1">>}
    \subseteq fs[d]

\* The directories the resolution discovered: the existing one it returned,
\* those of an ambiguity, those of the warning.
Discovered ==
  (IF located.status = "ok" /\ located.data_dir \in DOMAIN fs
   THEN {located.data_dir} ELSE {})
  \cup (IF located.status = "ValueError"
        THEN {located.msg[i].dir : i \in 1..Len(located.msg)} ELSE {})
  \cup located.warning

\* C14 as stated: every directory the resolution returns as existing data,
\* counts for an ambiguity or names in the warning is a complete version.
C14_Original_OnlyCompleteDiscovered ==
  located.status # "none" => \A d \in Discovered : IsComplete(d)

\* C14, amended: the resolution discovers the directories named as a version
\* and no other: a staging directory is never returned, counted or warned
\* about, while a directory named as a version is, whatever it holds (the
\* resolution looks at names only, not at the metadata or the shards).
C14_DiscoveryIsByName ==
  located.status # "none" =>
    /\ Discovered \subseteq VersionNamedDirs
    /\ Discovered \cap StagingDirs = {}
    /\ Discovered # {} <=> VersionNamedDirs # {}
    /\ \A r \in RootsHoldingVersion : (r \o <<"/">> \o VersionPath) \in Discovered
    /\ located.warning \in {{}, VersionNamedDirs}

\* C14 witness: a staging directory and a bare directory named as the
\* requested version; the bare one is returned as the location of the data.
C14_Witness ==
  /\ located.status = "ok"
  /\ located.data_dir \in DOMAIN fs
  /\ fs[located.data_dir] = {}
  /\ StagingDirs # {}

(***************************************************************************)
(* The catalog of a build and its reads: claims                            *)
(***************************************************************************)
\* Every split of the catalog has the shard lengths of its finalized writer.
AllFinalized(catalog) ==
  \A i \in 1..Len(catalog) : catalog[i].shard_lengths # <<>>

\* No split of the catalog has shard lengths yet.
NoneFinalized(catalog) ==
  \A i \in 1..Len(catalog) : catalog[i].shard_lengths = <<>>

\* The catalog names the splits of the generators, in their order.
NamesTheGenerators(catalog) ==
  /\ Len(catalog) = Len(split_generators)
  /\ \A i \in 1..Len(catalog) : catalog[i].name = split_generators[i]

\* C12 as stated: in both builds, whenever update_splits_if_different is
\* applied, the writer of every split has been finalized.
C12_Original_UpdateAfterAllFinalized ==
  [][hist'.updates > hist.updates => AllFinalized(info'.splits)]_vars

\* C12, amended: a generator-based build applies update_splits_if_different
\* once, after the writer of every split was finalized. A Beam-based build
\* applies it a first time (line 958) before any writer is finalized, and a
\* last time (line 1142) after every writer was. In both builds, the metadata
\* the build persists names every split of the generators, all finalized.
C12_CatalogPersistedAfterFinalize ==
  [][/\ (hist'.updates > hist.updates /\ builder_class = "GeneratorBasedBuilder") =>
          /\ hist.updates = 0
          /\ NamesTheGenerators(info'.splits) /\ AllFinalized(info'.splits)
     /\ (hist'.updates > hist.updates /\ builder_class = "BeamBasedBuilder") =>
          /\ NamesTheGenerators(info'.splits)
          /\ hist.updates = 0 => NoneFinalized(info'.splits)
          /\ hist.updates = 1 => AllFinalized(info'.splits)
          /\ hist.updates < 2
     /\ (pc = "write_info" /\ disk_info' # disk_info) =>
          /\ hist.updates = (IF builder_class = "BeamBasedBuilder" THEN 2 ELSE 1)
          /\ NamesTheGenerators(disk_info'[self_data_dir])
          /\ AllFinalized(disk_info'[self_data_dir])
     /\ \A d \in DOMAIN disk_info' :
          AllFinalized(disk_info'[d]) \/ NoneFinalized(disk_info'[d])]_vars

\* C12 witness: a Beam build of two splits has returned, after its two
\* updates, and the final directory has the catalog of the two splits.
C12_Witness ==
  /\ builder_class = "BeamBasedBuilder"
  /\ CallEnded /\ outcome.kind = "returned"
  /\ hist.updates = 2
  /\ FinalDir \in DOMAIN disk_info
  /\ Len(disk_info[FinalDir]) = 2
  /\ AllFinalized(disk_info[FinalDir])

\* The files of a split in a directory: finalized shards, and any file.
FinalizedShardsOf(split, d) ==
  {file \in fs[d] : Len(file) >= 4 /\ file[3] = split /\ file[4] = ".tfrecord-"}

FilesOf(split, d) == {file \in fs[d] : Len(file) >= 3 /\ file[3] = split}

\* C15: a split generator named "all" makes the build fail with a ValueError
\* when it is reached: the split is not in the catalog, nothing of it was
\* generated or written, and once the call has ended the whole build is
\* gone: no final directory, no staging directory.
C15_AllSplitRejected ==
  hist.body_error.kind = "all_split" =>
    /\ hist.body_error.type = "ValueError"
    /\ \A i \in 1..Len(split_dict) : split_dict[i].name # "all"
    /\ \A i \in 1..Len(info.splits) : info.splits[i].name # "all"
    /\ \A d \in DOMAIN fs : FilesOf("all", d) = {}
    /\ \E k \in 1..Len(split_generators) :
         /\ split_generators[k] = "all"
         /\ \A j \in 1..(k - 1) : split_generators[j] # "all"
         /\ hist.generated = (IF builder_class = "BeamBasedBuilder" THEN 0 ELSE k - 1)
    /\ ~Running =>
         /\ outcome = hist.body_error
         /\ FinalDir \notin DOMAIN fs
         /\ TempSiblings(fs) = {}
         /\ \A d \in DOMAIN fs : fs[d] = {}

\* C15 witness: the split "train" was written, then "all" was refused, and
\* the call has ended.
C15_Witness ==
  /\ ~Running
  /\ hist.body_error.kind = "all_split"
  /\ hist.generated = 1 /\ hist.wrote # {}
  /\ outcome.type = "ValueError"

\* C18: after a build that returned and whose generators named the splits S,
\* as_dataset with split=None on the same builder returns a mapping whose
\* keys are exactly S, and the shard lengths of each split of the catalog sum
\* to the number of examples written for it.
C18_ReadReturnsTheBuiltSplits ==
  (pc = "read" /\ outcome.kind = "returned" /\ ~UsesGcs
     /\ as_dataset_args.split = "None") =>
    /\ datasets.status = "ok" <=>
         ~(as_dataset_args.as_supervised /\ ~as_dataset_args.supervised_keys)
    /\ datasets.status = "ok" =>
         /\ datasets.is_dict
         /\ DOMAIN datasets.value =
              {split_generators[i] : i \in 1..Len(split_generators)}
         /\ \A s \in DOMAIN datasets.value : datasets.value[s].status = "ok"
    /\ NamesTheGenerators(info.splits)
    /\ Len(hist.examples) = Len(split_generators)
    /\ \A i \in 1..Len(info.splits) :
         /\ SumSeq(info.splits[i].shard_lengths) = hist.examples[i]
         /\ hist.examples[i] > 0

\* C18 witness: the splits "train" (2 examples) and "test" (1 example) were
\* built and read back.
C18_Witness ==
  /\ pc = "read" /\ outcome.kind = "returned" /\ ~UsesGcs
  /\ as_dataset_args.split = "None"
  /\ datasets.status = "ok"
  /\ DOMAIN datasets.value = {"train", "test"}
  /\ hist.examples = <<2, 1>>

\* C19: as_dataset fails with the AssertionError that names the root data
\* directory exactly when the version directory does not exist at the call,
\* whatever its arguments, and then builds no dataset.
C19_ReadWithoutDataFails ==
  pc = "read" =>
    /\ (FinalDir \notin DOMAIN fs) <=> (datasets.status = "AssertionError")
    /\ datasets.status = "AssertionError" =>
         /\ datasets.msg = <<"home", "/", "tensorflow_datasets">>
         /\ DOMAIN datasets.value = {}

\* C19 witness: a read of the whole "train" split, shuffled and supervised,
\* after a build that failed.
C19_Witness ==
  /\ pc = "read"
  /\ hist.staged /\ hist.body_error # NoError
  /\ as_dataset_args.split = "train"
  /\ as_dataset_args.batch_size = Some(-1)
  /\ as_dataset_args.shuffle_files /\ as_dataset_args.as_supervised
  /\ datasets.status = "AssertionError"

\* What a build that met a key twice has left: no finalized shard of that
\* split, no shard lengths and no size for it in the catalog of the build, no
\* catalog update in this call, no metadata persisted, no final directory.
DuplicateKeyLeftNothing ==
  LET split == split_generators[hist.generated]
  IN /\ hist.body_error.type = "DuplicateKeyError"
     /\ \A d \in DOMAIN fs : FinalizedShardsOf(split, d) = {}
     /\ \A i \in 1..Len(split_dict) :
          split_dict[i].name = split =>
            split_dict[i].shard_lengths = <<>> /\ split_dict[i].num_bytes = 0
     /\ hist.updates = 0
     /\ FinalDir \notin DOMAIN fs /\ FinalDir \notin DOMAIN disk_info
     /\ ~Running =>
          /\ outcome = hist.body_error
          /\ TempSiblings(fs) = {}

\* C20: when the generator of a split yields a key twice, the build fails
\* with the duplicate-key error: no shard file of that split is finalized,
\* the catalog of the build has no shard lengths and no size for it, the
\* catalog held by the builder is not updated by the failing step or later,
\* and there is no final directory.
C20_DuplicateKeyFailsTheBuild ==
  [][hist'.body_error.kind = "duplicate_key" =>
       DuplicateKeyLeftNothing' /\ info' = info /\ disk_info' = disk_info]_vars

\* C20 witness: "train" was written, then a key came twice in "test"; the
\* call has ended with the error.
C20_Witness ==
  /\ ~Running
  /\ hist.body_error.kind = "duplicate_key"
  /\ hist.generated = 2 /\ hist.wrote # {}
  /\ outcome.type = "DuplicateKeyError"

(***************************************************************************)
(* Two processes preparing the same version: claims                        *)
(***************************************************************************)
\* This process, the other one: each has a staging directory of its own.
Staged == staging.tmp_dir # <<>>
PeerStaged == peer.pc \in {"body", "write_info", "closing"}

\* The step makes the final directory.
Promotes == ~Exists(fs, FinalDir) /\ Exists(fs', FinalDir)

\* The step is the rename of the staging directory of this process, of the
\* other process: the final directory gets all that the staging one held.
PromotesOwn ==
  /\ pc = "closing" /\ pc' = "idle" /\ outcome'.kind = "returned"
  /\ peer' = peer
  /\ ~Exists(fs', staging.tmp_dir)
  /\ fs'[FinalDir] = fs[staging.tmp_dir] /\ fs'[FinalDir] = hist.wrote

PromotesPeer ==
  /\ peer.pc = "closing" /\ peer'.pc = "done" /\ peer'.outcome.kind = "returned"
  /\ pc' = pc /\ outcome' = outcome
  /\ ~Exists(fs', peer.tmp_dir)
  /\ fs'[FinalDir] = fs[peer.tmp_dir] /\ fs'[FinalDir] = peer.wrote

\* C13: of two processes preparing the same version, each stages in a
\* directory of its own, named differently from the other's and from the
\* final one. The final directory is made by one step only, the rename of one
\* process's staging directory, holds what that process wrote and never
\* changes afterwards: at most one process promotes. The process whose rename
\* finds the final directory ends with an error and its staging directory
\* stays on disk with what it wrote.
C13_OneBuildWinsTheRace ==
  [][/\ (Staged /\ PeerStaged) =>
          /\ staging.tmp_dir # peer.tmp_dir
          /\ Exists(fs, staging.tmp_dir) /\ Exists(fs, peer.tmp_dir)
     /\ Staged => staging.tmp_dir # FinalDir
     /\ (Staged /\ pc # "closing") => self_data_dir = staging.tmp_dir
     /\ PeerStaged => peer.tmp_dir # FinalDir
     /\ Promotes => (PromotesOwn /\ ~PromotesPeer) \/ (PromotesPeer /\ ~PromotesOwn)
     /\ Exists(fs, FinalDir) =>
          /\ Exists(fs', FinalDir) /\ fs'[FinalDir] = fs[FinalDir]
          /\ outcome'.kind = "returned" => outcome = outcome'
          /\ peer'.outcome.kind = "returned" => peer.outcome = peer'.outcome
     /\ (pc = "closing" /\ pc' = "idle" /\ raised = NoError /\ Exists(fs, FinalDir)) =>
          /\ outcome'.kind = "rename" /\ outcome'.type = "OpError"
          /\ fs' = fs
          /\ fs'[staging.tmp_dir] = hist.wrote
     /\ (peer.pc = "closing" /\ peer'.pc = "done" /\ peer.outcome = NoError
           /\ Exists(fs, FinalDir)) =>
          /\ peer'.outcome.kind = "rename" /\ peer'.outcome.type = "OpError"
          /\ fs' = fs
          /\ fs'[peer.tmp_dir] = peer.wrote
     /\ (peer.pc = "done" /\ peer.outcome.kind = "rename") =>
          /\ Exists(fs', peer.tmp_dir)
          /\ fs'[peer.tmp_dir] = peer.wrote]_vars

\* C13 witness: both processes passed the existence check and built; this
\* one renamed first; the other one ended with the rename error, and its
\* staging directory is still there, holding other files than the final one.
C13_Witness ==
  /\ pc = "idle" /\ outcome.kind = "returned" /\ hist.staged
  /\ peer.pc = "done" /\ peer.outcome.kind = "rename"
  /\ Exists(fs, FinalDir) /\ fs[FinalDir] = hist.wrote
  /\ Exists(fs, peer.tmp_dir) /\ fs[peer.tmp_dir] = peer.wrote
  /\ peer.wrote # hist.wrote

(***************************************************************************)
(* The order of the pre-flight checks, the reuse, the rebinding: claims    *)
(***************************************************************************)
\* The pre-flight conditions that fail for the call, and the first of them
\* in the order marker, installable, existence, disk space.
Failing ==
  {k \in {"marker", "not_installable", "exists", "no_space"} :
     \/ k = "marker" /\ picked.version.tfds_version_to_prepare
     \/ k = "not_installable" /\ ~Installable
     \/ k = "exists" /\ ExistedAtCall
     \/ k = "no_space" /\ ~call.has_sufficient_disk_space}

FirstFailing ==
  IF "marker" \in Failing
  THEN [type |-> "AssertionError", kind |-> "marker"]
  ELSE IF "not_installable" \in Failing
  THEN [type |-> "ValueError", kind |-> "not_installable"]
  ELSE IF "exists" \in Failing
  THEN [type |-> "ValueError", kind |-> "exists"]
  ELSE [type |-> "IOError", kind |-> "no_space"]

\* C24 as stated: when several pre-flight conditions fail at once, the error
\* of the call is the one of the first of them in the order marker
\* (AssertionError), not installable (ValueError), exists (ValueError), disk
\* space (IOError).
C24_Original_FirstOfFour ==
  (CallEnded /\ Cardinality(Failing) >= 2) =>
    outcome.type = FirstFailing.type /\ outcome.kind = FirstFailing.kind

\* C24, amended: when several pre-flight conditions fail at once, the call
\* returns normally when the directory exists and the mode is
\* REUSE_DATASET_IF_EXISTS; otherwise its error is NotImplementedError under
\* Python 2, and else the one of the first failing condition in the order
\* marker, not installable, exists, disk space. The not-installable error is
\* never raised for a version that carries the marker.
C24_FirstFailingCheckReported ==
  /\ (CallEnded /\ Cardinality(Failing) >= 2) =>
       IF ExistedAtCall /\ call.download_mode = REUSE_DATASET_IF_EXISTS
       THEN outcome.type = "none" /\ outcome.kind = "reused"
       ELSE IF py2
       THEN outcome.type = "NotImplementedError" /\ outcome.kind = "py2"
       ELSE outcome.type = FirstFailing.type /\ outcome.kind = FirstFailing.kind
  /\ (CallEnded /\ outcome.kind = "not_installable") =>
       ~picked.version.tfds_version_to_prepare

\* C24 witness: the four conditions fail at once, under Python 3 and with a
\* mode that does not reuse, and the call ends with the error of the marker.
C24_Witness ==
  /\ CallEnded /\ ~py2
  /\ Cardinality(Failing) = 4
  /\ call.download_mode # REUSE_DATASET_IF_EXISTS
  /\ outcome.type = "AssertionError" /\ outcome.kind = "marker"

\* C22: a call made while the final directory exists, with the mode
\* REUSE_DATASET_IF_EXISTS, is one step that returns normally: it creates no
\* directory, changes no file and no metadata, invokes no generator and
\* leaves info and data_dir alone, whatever the version resolved, the Python
\* and the disk space.
C22_ReuseReturnsAtOnce ==
  [][(pc = "idle" /\ pc' # "read" /\ Exists(fs, FinalDir)
        /\ call'.download_mode = REUSE_DATASET_IF_EXISTS) =>
       /\ pc' = "idle"
       /\ outcome'.type = "none" /\ outcome'.kind = "reused"
       /\ fs' = fs /\ disk_info' = disk_info
       /\ info' = info /\ self_data_dir' = self_data_dir
       /\ staging' = NoStaging /\ split_dict' = <<>> /\ raised' = NoError
       /\ ~hist'.staged /\ hist'.generated = 0 /\ hist'.wrote = {}
       /\ hist'.updates = 0]_vars

\* C22 witness: the data of a version that is not installable and carries the
\* marker was reused, under Python 2 and with no room on the disk.
C22_Witness ==
  /\ pc = "idle" /\ outcome.kind = "reused"
  /\ call.download_mode = REUSE_DATASET_IF_EXISTS
  /\ ~Installable /\ picked.version.tfds_version_to_prepare
  /\ py2 /\ ~call.has_sufficient_disk_space
  /\ Exists(fs, FinalDir) /\ fs = hist.fs0

\* The positions of a call inside the block of utils.temporary_assignment.
BodyPositions ==
  {"body", "splits", "pipeline", "beam_finalize", "stats", "write_info", "unwind"}

\* C23: data_dir is the staging directory exactly while the body of the build
\* runs; before the staging directory is opened, once the body was left, by a
\* return or by an error, and at any later call of as_dataset or
\* download_and_prepare, it is the final version path computed at
\* construction, which is no staging path.
C23_DataDirRestored ==
  /\ pc \in BodyPositions =>
       /\ staging.tmp_dir # <<>>
       /\ self_data_dir = staging.tmp_dir
       /\ self_data_dir # FinalDir
       /\ staging.saved = FinalDir
  /\ pc \notin BodyPositions => self_data_dir = FinalDir
  /\ FinalDir = PathJoin(<<"home", "/", "tensorflow_datasets">>,
                         <<"d", "/">> \o VersionStr(picked.version))
  /\ \A i \in 1..Len(FinalDir) : FinalDir[i] # ".incomplete"

\* C23 witness: a build was staged and its body raised; as_dataset was called
\* afterwards, data_dir being the final path again.
C23_Witness ==
  /\ pc = "read"
  /\ hist.staged /\ hist.body_error # NoError
  /\ outcome = hist.body_error
  /\ self_data_dir = FinalDir

(***************************************************************************)
(* A build retried after an aborted one: claims                            *)
(***************************************************************************)
\* No directory of the filesystem holds a file.
NoFileIn(f) == \A d \in DOMAIN f : f[d] = {}

\* C21: a call made on a builder whose previous call was aborted after it had
\* written files starts from scratch. When it began, the final directory was
\* absent and nothing of the aborted attempt was left, so the existence
\* check passes; its staging directory is new and empty; and when it returns,
\* every split generator has run again, the final directory holds exactly the
\* files this call wrote, and the catalog, persisted and held by the builder,
\* has for each split the shard lengths of the examples this call wrote.
C21_RetryStartsFromScratch ==
  hist.retry =>
    /\ ~ExistedAtCall
    /\ NoFileIn(hist.fs0) /\ TempSiblings(hist.fs0) = {}
    /\ outcome.kind \notin {"exists", "reused"}
    /\ pc = "body" =>
         /\ self_data_dir \notin DOMAIN hist.fs0
         /\ fs[self_data_dir] = {}
         /\ split_dict = <<>>
         /\ hist.generated = 0 /\ hist.wrote = {} /\ hist.examples = <<>>
    /\ (CallEnded /\ outcome.kind = "returned") =>
         /\ Exists(fs, FinalDir) /\ fs[FinalDir] = hist.wrote
         /\ TempSiblings(fs) = {}
         /\ info.splits = disk_info[FinalDir]
         /\ ~UsesGcs =>
              /\ hist.generated = Len(split_generators)
              /\ NamesTheGenerators(info.splits)
              /\ \A i \in 1..Len(info.splits) :
                   SumSeq(info.splits[i].shard_lengths) = hist.examples[i]
              /\ fs[FinalDir] =
                   {InfoFile} \cup
                   UNION {ShardFiles(info.splits[i].name, info.splits[i].shard_lengths)
                            : i \in 1..Len(info.splits)}

\* C21 witness: a Beam build of two splits that returned, on a builder whose
\* previous call was aborted after it had written files.
C21_Witness ==
  /\ hist.retry
  /\ CallEnded /\ outcome.kind = "returned" /\ ~UsesGcs
  /\ builder_class = "BeamBasedBuilder"
  /\ hist.generated = 2 /\ Len(info.splits) = 2
  /\ fs[FinalDir] = hist.wrote

====
